---------------------------- MODULE Spec2Model ----------------------------
(***************************************************************************)
(* KVAT (Key Value Address Table): the entry table, the paging region, the *)
(* runtime page record and the public operations of src/kvat/kvat.c.       *)
(*                                                                         *)
(* The format limits are scaled down so that the model is finite and the   *)
(* store can be filled: PAGESIZE 4 (source: 12) and PAGECOUNT 4 (source:   *)
(* 128).  Everything else is computed from them as the code does, so the   *)
(* page record has (PAGECOUNT/8)+1 bytes, i.e. more bits than pages.       *)
(* Bytes are small naturals; every byte a page can hold is at most MaxByte *)
(* so that a byte read as a link names a page of the modelled storage.     *)
(***************************************************************************)
EXTENDS Integers, Sequences, FiniteSets, TLC

\* ---- formatting limits (kvat.c 22-31) ----
FORMATID == 210
PAGESIZE == 4
PAGECOUNT == 4
INDEXSTART == 0
STRINGKEYSTDLEN == 16

\* ---- table entry metadata (kvat.c 46-64) ----
MDEFAULT == 0
MACTIVE == 1
MOPEN == 2
MKC_ISMULTIPLE == 4
MKC_MULTIPLE == 4
MKC_SINGLE == 0
MVC_ISMULTIPLE == 8
MVC_MULTIPLE == 8
MVC_SINGLE == 0
MKF_STRING == 0

\* sizeof(KVATIndex) and sizeof(KVATKeyValueEntry) (kvat.c 85-101)
SizeofIndex == 16
SizeofEntry == 4
\* sizeof(PageNumber)
SizeofPageNumber == 1

\* ---- bounds of the model ----
\* number of mutating public calls in one run
MaxOps == 3
\* number of times a read of freed memory yields something else than the
\* value last stored there
MaxStale == 1
\* a loss of power follows 1..MaxCut storage programs of the call it ends
MaxCut == 5
\* number of calls completed before a loss of power
MaxCutDepth == 1
\* the storage program MAP_EEPROMProgram reports as failed is one of the
\* first MaxFail + 1 of its call
MaxFail == 5
\* number of calls completed before a call in which a program fails
MaxFaultDepth == 1

\* arithmetic of the C types
U8(x) == x % 256
\* a KVATSize difference: a negative one wraps.  TLC's integers end at 2^31 - 1,
\* so the wrapped value 2^32 + x is written 2^31 + x, which like it exceeds
\* every size the model handles
U32(x) == IF x >= 0 THEN x ELSE (x + 2147483647) + 1

RECURSIVE BitAnd(_, _)
BitAnd(a, b) ==
    IF a = 0 \/ b = 0 THEN 0
    ELSE (a % 2) * (b % 2) + 2 * BitAnd(a \div 2, b \div 2)

RECURSIVE BitOr(_, _)
BitOr(a, b) ==
    IF a = 0 THEN b
    ELSE IF b = 0 THEN a
    ELSE (IF (a % 2) + (b % 2) > 0 THEN 1 ELSE 0) + 2 * BitOr(a \div 2, b \div 2)

BitNot8(a) == 255 - a

RECURSIVE Shl(_, _)
Shl(a, n) == IF n = 0 THEN a ELSE Shl(2 * a, n - 1)

\* the value C converts to true
Truthy(x) == x # 0

NULL == <<>>

\* a key argument that is the null pointer (no C string holds this byte)
NullKey == <<0 - 1>>

\* F applied to the value of e, e being evaluated once
Bind(e, F(_)) == CHOOSE r \in {F(v) : v \in {e}} : TRUE

\* the page number the page record scan yields when it runs off the record,
\* which is also the highest page number the modelled storage holds
MaxByte == 8 * ((PAGECOUNT \div 8) + 1)

ZeroPage == [i \in 1..PAGESIZE |-> 0]

EmptyEntry == [metadata |-> MDEFAULT, keyPage |-> 0, valuePage |-> 0, remains |-> 0]

FormattedIndex ==
    [formatID |-> FORMATID, pageSize |-> PAGESIZE, pageCount |-> PAGECOUNT,
     pageBeginAddress |-> INDEXSTART + SizeofIndex + SizeofEntry * PAGECOUNT]

VARIABLES
    didInit,      \* static bool didInit
    index,        \* static KVATIndex* index (NULL or the runtime copy)
    pageRecord,   \* static unsigned char* pageRecord (NULL or its bytes)
    eeIndex,      \* storage: the index header at INDEXSTART
    eeTable,      \* storage: the entry table, positions 0..PAGECOUNT-1
    eePages,      \* storage: the paging region, by page number
    heapOverrun,  \* a byte outside the page record allocation was written
    staleReads,   \* reads of freed memory that did not yield the stored value
    hist,         \* the mutating public calls made so far, oldest first
    retrieved,    \* the last KVATRetrieveValue call since the last mutating call
    entryWrites   \* the entry programs of the last call that reached storage

vars == <<didInit, index, pageRecord, eeIndex, eeTable, eePages, heapOverrun,
          staleReads, hist, retrieved, entryWrites>>

(***************************************************************************)
(* The machine: the statics and the storage an operation works on, with    *)
(* the count of storage programs made (nw), the number of programs after   *)
(* which power is lost (cut), the program that MAP_EEPROMProgram reports   *)
(* as failed (failAt, counted from 0), whether that program reached the    *)
(* medium all the same (failLands), what the last program returned         *)
(* (programResult, 0 for success), and the entry programs that reached the *)
(* medium, in order, each with the metadata it replaced (steps).  What the *)
(* environment refuses during the call: MAP_EEPROMInit reporting an error  *)
(* (memInitError), malloc returning NULL for the index (noIndexHeap), for  *)
(* the page record (noRecordHeap) or for the buffers of the writeData call *)
(* number k of the call, k in noHeapAt (allocs counts those calls).  The    *)
(* storage programs of the call, in the order they were made, each with    *)
(* what it programs and whether it was reported as done (programs).  The   *)
(* number of link bytes the chain walks of the call read from storage      *)
(* (linkReads).                                                            *)
(***************************************************************************)
\* no loss of power during the call, no failing program
NoCut == 0 - 1

Machine(cut) ==
    [didInit |-> didInit, index |-> index, pageRecord |-> pageRecord,
     eeIndex |-> eeIndex, eeTable |-> eeTable, eePages |-> eePages,
     heapOverrun |-> heapOverrun, nw |-> 0, cut |-> cut,
     failAt |-> NoCut, failLands |-> FALSE, programResult |-> 0,
     steps |-> <<>>, memInitError |-> FALSE, noIndexHeap |-> FALSE,
     noRecordHeap |-> FALSE, noHeapAt |-> {}, allocs |-> 0, programs |-> <<>>,
     linkReads |-> 0]

\* the machine of a call whose storage program number failAt fails
FaultyMachine(failAt, failLands) ==
    [Machine(NoCut) EXCEPT !.failAt = failAt, !.failLands = failLands]

\* the program about to be made is the one that fails
Failing(m) == m.failAt # NoCut /\ m.nw = m.failAt

\* MAP_EEPROMProgram reaches the medium only while power is on; a program
\* reported as failed may or may not have reached it
Powered(m) ==
    /\ m.cut = NoCut \/ m.nw < m.cut
    /\ Failing(m) => m.failLands

\* what MAP_EEPROMProgram returns
ProgramResult(m) == IF Failing(m) THEN 1 ELSE 0

\* ---- index and table (kvat.c 117-274) ----
saveIndex(m) ==
    [m EXCEPT !.nw = @ + 1, !.programResult = ProgramResult(m),
              !.programs = Append(@, [what |-> "index", done |-> ~Failing(m)]),
              !.eeIndex = IF Powered(m) THEN m.index ELSE @]

readIndex(m) == [m EXCEPT !.index = m.eeIndex]

setEntryMetadata(entry, mask, value) ==
    [entry EXCEPT !.metadata = BitOr(BitAnd(@, BitNot8(mask)), BitAnd(value, mask))]

getMetadataBool(entry, mask) == Truthy(BitAnd(entry.metadata, mask))

saveTableEntry(m, entryToSave, entryPosition) ==
    [m EXCEPT !.nw = @ + 1, !.programResult = ProgramResult(m),
              !.programs = Append(@, [what |-> "entry", done |-> ~Failing(m),
                                      metadata |-> entryToSave.metadata]),
              !.eeTable = IF Powered(m) THEN [@ EXCEPT ![entryPosition] = entryToSave]
                          ELSE @,
              !.steps = IF Powered(m)
                        THEN Append(@, [entry |-> entryPosition,
                                        from |-> m.eeTable[entryPosition].metadata,
                                        to |-> entryToSave.metadata])
                        ELSE @]

\* an entry program taken as done whatever it returned
didSaveEntryAlways(m) == TRUE

\* the bool saveTableEntry returns: !programResult
didSaveEntry(m) == m.programResult = 0

readTableEntry(m, entryPosition) == m.eeTable[entryPosition]

RECURSIVE EmptyEntryScan(_, _)
EmptyEntryScan(m, entryN) ==
    IF entryN >= m.index.pageCount THEN 0
    ELSE IF ~Truthy(BitAnd(readTableEntry(m, entryN).metadata, BitOr(MACTIVE, MOPEN)))
         THEN entryN
         ELSE EmptyEntryScan(m, entryN + 1)

\* a scan that takes entry 0 for an entry like the others
getEmptyTableEntryNumberFromZero(m) == EmptyEntryScan(m, 0)

\* a scan that takes every entry without ACTIVE for empty
RECURSIVE NotActiveScan(_, _)
NotActiveScan(m, entryN) ==
    IF entryN >= m.index.pageCount THEN 0
    ELSE IF ~Truthy(BitAnd(readTableEntry(m, entryN).metadata, MACTIVE)) THEN entryN
    ELSE NotActiveScan(m, entryN + 1)

getEmptyTableEntryNumberNotActive(m) == NotActiveScan(m, 1)

getEmptyTableEntryNumber(m) == EmptyEntryScan(m, 1)

\* ---- paging (kvat.c 323-410) ----
readPage(m, pageNumber) == m.eePages[pageNumber]

\* writePage with limitWriteSize 0: the whole page
writePage(m, pageData, pageNumber) ==
    [m EXCEPT !.nw = @ + 1, !.programResult = ProgramResult(m),
              !.programs = Append(@, [what |-> "page", done |-> ~Failing(m)]),
              !.eePages = IF Powered(m) THEN [@ EXCEPT ![pageNumber] = pageData]
                          ELSE @]

getNextPageNumberFromPage(pageData) == pageData[1]

readNextPageNumber(m, pageNumber) == getNextPageNumberFromPage(readPage(m, pageNumber))

\* reads the first word of the page, replaces its first byte, writes the word back
saveNextPageNumber(m, pageNumber, nextPageNumber) ==
    [m EXCEPT !.nw = @ + 1, !.programResult = ProgramResult(m),
              !.programs = Append(@, [what |-> "page", done |-> ~Failing(m)]),
              !.eePages = IF Powered(m)
                          THEN [@ EXCEPT ![pageNumber] = [@ EXCEPT ![1] = nextPageNumber]]
                          ELSE @]

\* pages without a link byte
getPageNextSizeNone(isPartOfMultipleChain) == 0

getPageNextSize(isPartOfMultipleChain) ==
    IF isPartOfMultipleChain THEN SizeofPageNumber ELSE 0

\* ---- page record (kvat.c 421-594) ----
getPageRecordSize(m) == (m.index.pageCount \div 8) + 1

\* a write to pageRecord[recordSegment] past the allocation lands outside the
\* record: the record keeps its bytes and the overrun is remembered
markPageInRecord(m0, pageNumber, isUsed) ==
    Bind(m0, LAMBDA m :
    IF m.pageRecord = NULL THEN m
    ELSE LET recordSegment == pageNumber \div 8
             recordBit == pageNumber % 8
         IN IF recordSegment + 1 > Len(m.pageRecord)
            THEN [m EXCEPT !.heapOverrun = TRUE]
            ELSE [m EXCEPT !.pageRecord[recordSegment + 1] =
                      IF isUsed THEN BitOr(@, Shl(1, recordBit))
                      ELSE BitAnd(@, BitNot8(Shl(1, recordBit)))])

checkPageFromRecord(m, pageNumber) ==
    IF m.pageRecord = NULL \/ pageNumber = 0 THEN TRUE
    ELSE Truthy(BitAnd(m.pageRecord[(pageNumber \div 8) + 1], Shl(1, pageNumber % 8)))

\* the first record byte that is not 0xFF, or the record size when all are
RECURSIVE OpenSegmentScan(_, _, _)
OpenSegmentScan(record, recordSegment, pageRecordSize) ==
    IF recordSegment >= pageRecordSize THEN recordSegment
    ELSE IF record[recordSegment + 1] # 255 THEN recordSegment
    ELSE OpenSegmentScan(record, recordSegment + 1, pageRecordSize)

\* the nibble, pair and bit descent to the first 0 bit of a byte that is not 0xFF
OpenBitOf(segmentByte) ==
    LET lowNibble == BitOr(segmentByte, 240) # 255
        s4 == IF lowNibble THEN BitAnd(segmentByte, 15) ELSE segmentByte \div 16
        b4 == IF lowNibble THEN 0 ELSE 4
        lowPair == BitOr(s4, 12) # 15
        s2 == IF lowPair THEN BitAnd(s4, 3) ELSE s4 \div 4
        b2 == IF lowPair THEN b4 ELSE b4 + 2
    IN IF BitOr(s2, 2) # 3 THEN b2 ELSE b2 + 1

\* yields [m, page]
getEmptyPageNumber(m0, shouldMarkAsUsed) ==
    Bind(m0, LAMBDA m :
    Bind(OpenSegmentScan(m.pageRecord, 0, getPageRecordSize(m)), LAMBDA recordSegment :
    Bind(IF recordSegment < getPageRecordSize(m)
         THEN OpenBitOf(m.pageRecord[recordSegment + 1]) ELSE 0, LAMBDA recordBit :
    Bind(U8(recordSegment * 8 + recordBit), LAMBDA emptyPageFound :
       [m |-> IF shouldMarkAsUsed /\ emptyPageFound # 0
              THEN markPageInRecord(m, emptyPageFound, TRUE) ELSE m,
        page |-> emptyPageFound]))))

\* s: [m, currentPageN, chainPageN]
RECURSIVE FollowLoop(_, _, _)
FollowLoop(s0, isActive, isChainMultiple) ==
    Bind(s0, LAMBDA s :
    IF s.currentPageN = 0 \/ s.chainPageN >= s.m.index.pageCount THEN s.m
    ELSE FollowLoop([m |-> [markPageInRecord(s.m, s.currentPageN, isActive)
                              EXCEPT !.linkReads = IF isChainMultiple THEN @ + 1 ELSE @],
                     currentPageN |-> IF isChainMultiple
                                      THEN readNextPageNumber(s.m, s.currentPageN)
                                      ELSE 0,
                     chainPageN |-> s.chainPageN + 1],
                    isActive, isChainMultiple))

\* a walk that goes on for twice pageCount pages
RECURSIVE LongFollowLoop(_, _, _)
LongFollowLoop(s0, isActive, isChainMultiple) ==
    Bind(s0, LAMBDA s :
    IF s.currentPageN = 0 \/ s.chainPageN >= 2 * s.m.index.pageCount THEN s.m
    ELSE LongFollowLoop([m |-> [markPageInRecord(s.m, s.currentPageN, isActive)
                                  EXCEPT !.linkReads = IF isChainMultiple THEN @ + 1 ELSE @],
                         currentPageN |-> IF isChainMultiple
                                          THEN readNextPageNumber(s.m, s.currentPageN)
                                          ELSE 0,
                         chainPageN |-> s.chainPageN + 1],
                        isActive, isChainMultiple))

followPageChainAndSetPageRecordLongWalk(m, chainStart, isActive, isChainMultiple) ==
    IF chainStart = 0 THEN m
    ELSE LongFollowLoop([m |-> m, currentPageN |-> chainStart, chainPageN |-> 0],
                        isActive, isChainMultiple)

\* a walk that stops after the first page of the chain
followPageChainAndSetPageRecordFirstOnly(m, chainStart, isActive, isChainMultiple) ==
    IF chainStart = 0 THEN m
    ELSE markPageInRecord(m, chainStart, isActive)

followPageChainAndSetPageRecord(m, chainStart, isActive, isChainMultiple) ==
    IF chainStart = 0 THEN m
    ELSE FollowLoop([m |-> m, currentPageN |-> chainStart, chainPageN |-> 0],
                    isActive, isChainMultiple)

RECURSIVE UpdateLoop(_, _)
UpdateLoop(m0, entryN) ==
    Bind(m0, LAMBDA m :
    IF entryN >= m.index.pageCount THEN m
    ELSE Bind(readTableEntry(m, entryN), LAMBDA entry :
         IF Truthy(BitAnd(entry.metadata, MACTIVE))
         THEN UpdateLoop(
                followPageChainAndSetPageRecord(
                  followPageChainAndSetPageRecord(
                    m, entry.keyPage, TRUE,
                    Truthy(BitAnd(entry.metadata, MKC_ISMULTIPLE))),
                  entry.valuePage, TRUE,
                  Truthy(BitAnd(entry.metadata, MVC_ISMULTIPLE))),
                entryN + 1)
         ELSE UpdateLoop(m, entryN + 1)))

\* the result of the code is false exactly when the allocation failed, which
\* leaves pageRecord NULL
updatePageRecord(m) ==
    IF m.noRecordHeap THEN [m EXCEPT !.pageRecord = NULL]
    ELSE UpdateLoop(markPageInRecord(
                      [m EXCEPT !.pageRecord = [i \in 1..getPageRecordSize(m) |-> 0]],
                      0, TRUE),
                    1)

\* ---- fetch (kvat.c 615-685) ----
\* the chain size calculation of a multiple page chain: yields the page
\* count and the number of links read
RECURSIVE FetchCountLoop(_, _, _)
FetchCountLoop(m, currentPageN0, pageCount) ==
    Bind(currentPageN0, LAMBDA currentPageN :
    IF pageCount >= m.index.pageCount THEN [pageCount |-> pageCount, linkReads |-> 0]
    ELSE Bind(readNextPageNumber(m, currentPageN), LAMBDA next :
         IF next = 0 THEN [pageCount |-> pageCount, linkReads |-> 1]
         ELSE Bind(FetchCountLoop(m, next, pageCount + 1), LAMBDA counted :
              [counted EXCEPT !.linkReads = @ + 1])))

\* the bytes the fetch loop copies into the record, page after page
RECURSIVE FetchCopyLoop(_, _, _, _, _)
FetchCopyLoop(m, currentPageN0, i, pageCount, sz) ==
    Bind(currentPageN0, LAMBDA currentPageN :
    IF i >= pageCount THEN <<>>
    ELSE Bind(readPage(m, currentPageN), LAMBDA singlePage :
         SubSeq(singlePage, sz.pageNextSize + 1,
                sz.pageNextSize + (IF sz.lastPageTrim # 0 /\ i + 1 = pageCount
                                   THEN sz.lastPageTrim ELSE sz.pageDataSize))
         \o FetchCopyLoop(m, getNextPageNumberFromPage(singlePage), i + 1,
                          pageCount, sz)))

\* yields the record's bytes [0, recordSize), maxSize, whether the
\* preallocated buffer holds the record, and the number of links the chain
\* size calculation read
fetchData(m0, startPage0, isChainMultiple0, hasPreallocBuffer, preallocBufferSize, forceFetchOnPreallocBuffer) ==
    Bind(<<m0, startPage0, isChainMultiple0>>, LAMBDA a :
    Bind(IF a[3] THEN FetchCountLoop(a[1], a[2], 1)
         ELSE [pageCount |-> 1, linkReads |-> 0], LAMBDA counted :
    LET m == a[1]
        chainPages == counted.pageCount
        startPage == a[2]
        isChainMultiple == a[3]
        pageNextSize == getPageNextSize(isChainMultiple)
        pageDataSize == m.index.pageSize - pageNextSize
        fullSize == pageDataSize * chainPages + 1
        trimmed == forceFetchOnPreallocBuffer /\ preallocBufferSize < fullSize
        recordSize == IF trimmed THEN preallocBufferSize ELSE fullSize
        lastPageTrim == IF trimmed THEN recordSize % pageDataSize ELSE 0
        pageCount == IF trimmed
                     THEN U8((recordSize \div pageDataSize)
                             + (IF lastPageTrim # 0 THEN 1 ELSE 0))
                     ELSE chainPages
    IN Bind(FetchCopyLoop(m, startPage, 0, pageCount,
                          [pageNextSize |-> pageNextSize, pageDataSize |-> pageDataSize,
                           lastPageTrim |-> lastPageTrim]), LAMBDA copied :
       [record |-> IF Len(copied) < recordSize THEN copied \o <<0>> ELSE copied,
        maxSize |-> pageCount * pageDataSize,
        inPrealloc |-> hasPreallocBuffer /\ preallocBufferSize >= recordSize,
        linkReads |-> counted.linkReads])))

\* ---- write (kvat.c 703-845) ----
\* what a read of pagesUsed[0] after free(pagesUsed) yields: the value stored
\* there (stale = Intact) or the byte the allocator left in its place
Intact == 0 - 1
FreedRead(stored, stale) == IF stale = Intact THEN stored ELSE stale

\* pageDataSize bytes from data + pageDataSize*currentPageI; the bytes past
\* the end of the data are whatever follows it in the caller's memory (pad)
DataSlice(data, size, pageDataSize, currentPageI, pad) ==
    [j \in 1..pageDataSize |->
        IF pageDataSize * currentPageI + j <= size
        THEN data[pageDataSize * currentPageI + j] ELSE pad]

RECURSIVE ReturnPagesLoop(_, _, _, _)
ReturnPagesLoop(m, pagesUsed, returnI, currentPageI) ==
    IF returnI >= currentPageI THEN m
    ELSE ReturnPagesLoop(markPageInRecord(m, pagesUsed[returnI + 1], FALSE),
                         pagesUsed, returnI + 1, currentPageI)

\* the reuse chain cursor at the top of an iteration
CycleReuseChain(m, L, isReuseChainMultiple) ==
    IF L.reuseChainNext # 0 /\ isReuseChainMultiple
    THEN Bind(readNextPageNumber(m, L.reuseChainNext), LAMBDA next :
              [reuseChainNext |-> next,
               reuseChainDryI |-> IF next = 0 THEN L.currentPageI + 1
                                  ELSE L.reuseChainDryI])
    ELSE IF L.reuseChainNext # 0
    THEN [reuseChainNext |-> 0, reuseChainDryI |-> L.currentPageI + 1]
    ELSE [reuseChainNext |-> L.reuseChainNext, reuseChainDryI |-> L.reuseChainDryI]

\* s: [m, L] with L the loop's locals; pagesUsed[k] of the code is
\* L.pagesUsed[k + 1].  P: what the loop does not change
RECURSIVE WriteLoop(_, _)
WriteLoop(s0, P) ==
    Bind(s0, LAMBDA s :
    IF s.L.currentPageI >= P.pagesNeeded THEN s
    ELSE
    Bind(CycleReuseChain(s.m, s.L, P.isReuseChainMultiple), LAMBDA cycled :
    LET m == s.m
        L == s.L
        thisPageN == L.nextPageN
    IN IF thisPageN = 0
       THEN Bind(ReturnPagesLoop(m, L.pagesUsed, cycled.reuseChainDryI,
                                 L.currentPageI), LAMBDA returned :
            [m |-> IF P.isReuseChainMultiple
                   THEN saveNextPageNumber(returned,
                                           L.pagesUsed[cycled.reuseChainDryI], 0)
                   ELSE returned,
             L |-> [L EXCEPT !.reuseChainNext = cycled.reuseChainNext,
                             !.reuseChainDryI = cycled.reuseChainDryI,
                             !.pagesUsed = IF L.pagesUsed = <<>> THEN <<0>>
                                           ELSE [@ EXCEPT ![1] = 0]]])
       ELSE Bind(IF L.currentPageI + 1 < P.pagesNeeded
                 THEN IF cycled.reuseChainNext # 0
                      THEN [m |-> m, page |-> cycled.reuseChainNext]
                      ELSE getEmptyPageNumber(m, TRUE)
                 ELSE [m |-> m, page |-> 0], LAMBDA taken :
            WriteLoop([m |-> writePage(taken.m,
                                       (IF P.pageNextSize = 0 THEN <<>>
                                        ELSE <<taken.page>>)
                                       \o DataSlice(P.data, P.size, P.pageDataSize,
                                                    L.currentPageI, P.pad),
                                       thisPageN),
                       L |-> [currentPageI |-> L.currentPageI + 1,
                              reuseChainNext |-> cycled.reuseChainNext,
                              reuseChainDryI |-> cycled.reuseChainDryI,
                              nextPageN |-> taken.page,
                              pagesUsed |-> Append(L.pagesUsed, thisPageN)]],
                      P))))

\* yields [m, page, isMultiple, remains]; page is the returned first page
writeData(m0, data, size, reuseChainStartPage0, isReuseChainMultiple0, pad, stale) ==
    Bind(<<m0, reuseChainStartPage0, isReuseChainMultiple0>>, LAMBDA a :
    LET m == a[1]
        reuseChainStartPage == a[2]
        isReuseChainMultiple == a[3]
        isMultipleChain == size > m.index.pageSize
        pageSize == m.index.pageSize
        pageNextSize == getPageNextSize(isMultipleChain)
        pageDataSize == pageSize - pageNextSize
        pagesNeeded == U8((IF isMultipleChain THEN U8(size \div pageDataSize) ELSE 1)
                          + (IF isMultipleChain /\ size % pageDataSize # 0
                             THEN 1 ELSE 0))
        overflow == size % pageDataSize
    IN IF size = 0 \/ pagesNeeded > m.index.pageCount
       THEN [m |-> m, page |-> 0, isMultiple |-> FALSE, remains |-> 0]
       ELSE IF m.allocs \in m.noHeapAt
       THEN [m |-> [m EXCEPT !.allocs = @ + 1], page |-> 0,
             isMultiple |-> FALSE, remains |-> 0]
       ELSE
       Bind(IF reuseChainStartPage # 0
            THEN [m |-> [m EXCEPT !.allocs = @ + 1], page |-> reuseChainStartPage]
            ELSE getEmptyPageNumber([m EXCEPT !.allocs = @ + 1], TRUE), LAMBDA first :
       Bind(WriteLoop([m |-> first.m,
                       L |-> [currentPageI |-> 0,
                              reuseChainNext |-> reuseChainStartPage,
                              reuseChainDryI |-> 0,
                              nextPageN |-> first.page,
                              pagesUsed |-> <<>>]],
                      [data |-> data, size |-> size,
                       pageNextSize |-> pageNextSize,
                       pageDataSize |-> pageDataSize,
                       pagesNeeded |-> pagesNeeded,
                       isReuseChainMultiple |-> isReuseChainMultiple,
                       pad |-> pad]), LAMBDA done :
       [m |-> IF done.L.reuseChainNext # 0
              THEN followPageChainAndSetPageRecord(
                     done.m, done.L.reuseChainNext, FALSE, isReuseChainMultiple)
              ELSE done.m,
        page |-> FreedRead(done.L.pagesUsed[1], stale),
        isMultiple |-> isMultipleChain,
        remains |-> IF overflow # 0 THEN pageDataSize - overflow ELSE 0])))

\* ---- lookup (kvat.c 859-911) ----
\* strlen of a fetched record (it always holds a 0)
RECURSIVE StrLenFrom(_, _)
StrLenFrom(bytes, n) ==
    IF n >= Len(bytes) \/ bytes[n + 1] = 0 THEN n ELSE StrLenFrom(bytes, n + 1)

strlen(bytes) == StrLenFrom(bytes, 0)

\* a comparison that leaves the last character out
StrNCmpAllButLast(key, entryKey, keySize) ==
    \A j \in 1..(keySize - 1) : j <= Len(entryKey) /\ entryKey[j] = key[j]

\* strncmp(key, entryKey, keySize) = 0, key holding keySize characters and no 0
StrNCmpEqual(key, entryKey, keySize) ==
    \A j \in 1..keySize : j <= Len(entryKey) /\ entryKey[j] = key[j]

RECURSIVE LookupLoop(_, _, _, _)
LookupLoop(m, key, isPartialKey, entryN) ==
    IF entryN >= m.index.pageCount THEN 0
    ELSE Bind(readTableEntry(m, entryN), LAMBDA entry :
         IF ~Truthy(BitAnd(entry.metadata, MACTIVE))
         THEN LookupLoop(m, key, isPartialKey, entryN + 1)
         ELSE Bind(fetchData(m, entry.keyPage,
                             Truthy(BitAnd(entry.metadata, MKC_ISMULTIPLE)),
                             TRUE, STRINGKEYSTDLEN, FALSE).record, LAMBDA entryKey :
              LET keySize == Len(key)
                  entryKeySize == strlen(entryKey)
              IN IF /\ \/ isPartialKey /\ keySize <= entryKeySize
                       \/ ~isPartialKey /\ keySize = entryKeySize
                    /\ StrNCmpEqual(key, entryKey, keySize)
                 THEN entryN
                 ELSE LookupLoop(m, key, isPartialKey, entryN + 1)))

\* a lookup that always starts at entry 1
lookupByKeyFromStart(m0, key, isPartialKey, entryNumberSearchStart) ==
    Bind(m0, LAMBDA m : LookupLoop(m, key, isPartialKey, 1))

lookupByKey(m0, key, isPartialKey, entryNumberSearchStart) ==
    Bind(m0, LAMBDA m :
    LookupLoop(m, key, isPartialKey,
               IF entryNumberSearchStart # 0 THEN entryNumberSearchStart ELSE 1))

\* ---- public operations (kvat.c 916-1172); each yields [m, ret] ----
\* a deinit that leaves the engine initialised
deinitNothing(m) == m

deinit(m) == [m EXCEPT !.didInit = FALSE]

\* the key as the bytes of the C string, with its terminator
CString(key) == key \o <<0>>

\* FinalMetadata without the ACTIVE bit
FinalMetadataNoActive(isOverwrite, opened, keyIsMultiple, valueIsMultiple) ==
    BitOr(IF isOverwrite THEN BitAnd(opened.metadata, MKC_ISMULTIPLE)
          ELSE IF keyIsMultiple THEN MKC_MULTIPLE ELSE MKC_SINGLE,
          BitOr(IF valueIsMultiple THEN MVC_MULTIPLE ELSE MVC_SINGLE, MKF_STRING))

\* the metadata KVATSaveValue ends with
FinalMetadata(isOverwrite, opened, keyIsMultiple, valueIsMultiple) ==
    BitOr(IF isOverwrite THEN BitAnd(opened.metadata, MKC_ISMULTIPLE)
          ELSE IF keyIsMultiple THEN MKC_MULTIPLE ELSE MKC_SINGLE,
          BitOr(MACTIVE,
                BitOr(IF valueIsMultiple THEN MVC_MULTIPLE ELSE MVC_SINGLE,
                      MKF_STRING)))

KVATSaveValue(m0, key, value, valueSize, pad, staleKey, staleValue) ==
    Bind(m0, LAMBDA m :
    IF ~m.didInit \/ key = NullKey THEN [m |-> m, ret |-> "invalidAccess"]
    ELSE
    Bind(lookupByKey(m, key, FALSE, 1), LAMBDA found :
    Bind(IF found # 0 THEN found ELSE getEmptyTableEntryNumber(m), LAMBDA tableEntryN :
    IF tableEntryN = 0 THEN [m |-> m, ret |-> "insufficientSpace"]
    ELSE
    Bind([(IF found # 0 THEN readTableEntry(m, tableEntryN) ELSE EmptyEntry)
              EXCEPT !.metadata = BitOr(@, MOPEN)], LAMBDA opened :
    Bind(saveTableEntry(m, opened, tableEntryN), LAMBDA openedM :
    IF ~didSaveEntry(openedM) THEN [m |-> openedM, ret |-> "tableError"]
    ELSE
    Bind(IF found # 0
         THEN [m |-> openedM, page |-> opened.keyPage,
               isMultiple |-> FALSE, remains |-> 0]
         ELSE writeData(openedM, CString(key),
                        Len(key) + 1, 0, FALSE, pad, staleKey), LAMBDA keyWrite :
    IF found = 0 /\ keyWrite.page = 0
    THEN [m |-> keyWrite.m, ret |-> "insufficientSpace"]
    ELSE
    Bind(writeData(keyWrite.m, value, valueSize,
                   IF found # 0 THEN opened.valuePage ELSE 0,
                   Truthy(BitAnd(opened.metadata, MVC_ISMULTIPLE)),
                   pad, staleValue), LAMBDA valueWrite :
    IF valueWrite.page = 0
    THEN [m |-> valueWrite.m, ret |-> "insufficientSpace"]
    ELSE
    Bind(saveTableEntry(
           valueWrite.m,
           [metadata |-> FinalMetadata(found # 0, opened, keyWrite.isMultiple,
                                       valueWrite.isMultiple),
            keyPage |-> keyWrite.page,
            valuePage |-> valueWrite.page,
            remains |-> U8(valueWrite.remains)],
           tableEntryN), LAMBDA savedM :
    IF ~didSaveEntry(savedM) THEN [m |-> deinit(savedM), ret |-> "tableError"]
    ELSE [m |-> savedM, ret |-> "none"]))))))))

\* yields [ret, value, size]: value is the bytes the returned pointer (or the
\* caller's buffer) holds, size what *size is set to
KVATRetrieveValue(m0, key, hasRetrieveBuffer, retrieveBufferSize) ==
    Bind(m0, LAMBDA m :
    IF ~m.didInit \/ key = NullKey
    THEN [ret |-> "invalidAccess", value |-> <<>>, size |-> 0]
    ELSE
    Bind(lookupByKey(m, key, FALSE, 1), LAMBDA tableEntryN :
    IF tableEntryN = 0 THEN [ret |-> "notFound", value |-> <<>>, size |-> 0]
    ELSE
    Bind(readTableEntry(m, tableEntryN), LAMBDA tableEntry :
    Bind(fetchData(m, tableEntry.valuePage,
                   Truthy(BitAnd(tableEntry.metadata, MVC_ISMULTIPLE)),
                   hasRetrieveBuffer, retrieveBufferSize, hasRetrieveBuffer),
         LAMBDA fetched :
    [ret |-> "none", value |-> fetched.record,
     size |-> U32(fetched.maxSize - tableEntry.remains)]))))

KVATChangeKey(m0, currentKey, newKey, pad, staleNew, staleOld) ==
    Bind(m0, LAMBDA m :
    IF ~m.didInit \/ currentKey = NullKey \/ newKey = NullKey
    THEN [m |-> m, ret |-> "invalidAccess"]
    ELSE
    Bind(lookupByKey(m, currentKey, FALSE, 1), LAMBDA tableEntryN :
    IF tableEntryN = 0 THEN [m |-> m, ret |-> "notFound"]
    ELSE
    Bind(readTableEntry(m, tableEntryN), LAMBDA tableEntry :
    Bind(Truthy(BitAnd(tableEntry.metadata, MKC_ISMULTIPLE)),
         LAMBDA currentKeySavedInMultipleChain :
    Bind(writeData(m, CString(newKey), Len(newKey) + 1, tableEntry.keyPage,
                   currentKeySavedInMultipleChain, pad, staleNew), LAMBDA newWrite :
    IF newWrite.page = 0
    THEN Bind(writeData(newWrite.m, CString(currentKey), Len(currentKey) + 1,
                        tableEntry.keyPage, currentKeySavedInMultipleChain,
                        pad, staleOld), LAMBDA oldWrite :
         IF oldWrite.page = 0
         THEN [m |-> deinit(saveTableEntry(
                              oldWrite.m, [tableEntry EXCEPT !.metadata = MDEFAULT],
                              tableEntryN)),
               ret |-> "unknown"]
         ELSE [m |-> oldWrite.m, ret |-> "insufficientSpace"])
    ELSE IF newWrite.isMultiple # currentKeySavedInMultipleChain
    THEN [m |-> saveTableEntry(
                  newWrite.m,
                  setEntryMetadata(tableEntry, MKC_ISMULTIPLE,
                                   IF newWrite.isMultiple THEN MKC_MULTIPLE
                                   ELSE MKC_SINGLE),
                  tableEntryN),
          ret |-> "none"]
    ELSE [m |-> newWrite.m, ret |-> "none"])))))

\* a delete that leaves the page record as it is
KVATDeleteValueKeepingRecord(m0, key) ==
    Bind(m0, LAMBDA m :
    IF ~m.didInit \/ key = NullKey THEN [m |-> m, ret |-> "invalidAccess"]
    ELSE
    Bind(lookupByKey(m, key, FALSE, 1), LAMBDA tableEntryN :
    IF tableEntryN = 0 THEN [m |-> m, ret |-> "notFound"]
    ELSE
    Bind(readTableEntry(m, tableEntryN), LAMBDA tableEntry :
    Bind(saveTableEntry(m, [tableEntry EXCEPT !.metadata = MDEFAULT], tableEntryN),
         LAMBDA savedM :
    [m |-> savedM,
     ret |-> IF didSaveEntry(savedM) THEN "none" ELSE "tableError"]))))

KVATDeleteValue(m0, key) ==
    Bind(m0, LAMBDA m :
    IF ~m.didInit \/ key = NullKey THEN [m |-> m, ret |-> "invalidAccess"]
    ELSE
    Bind(lookupByKey(m, key, FALSE, 1), LAMBDA tableEntryN :
    IF tableEntryN = 0 THEN [m |-> m, ret |-> "notFound"]
    ELSE
    Bind(readTableEntry(m, tableEntryN), LAMBDA tableEntry :
    Bind(saveTableEntry(
           followPageChainAndSetPageRecord(
             followPageChainAndSetPageRecord(
               m, tableEntry.keyPage, FALSE,
               Truthy(BitAnd(tableEntry.metadata, MKC_ISMULTIPLE))),
             tableEntry.valuePage, FALSE,
             Truthy(BitAnd(tableEntry.metadata, MVC_ISMULTIPLE))),
           [tableEntry EXCEPT !.metadata = MDEFAULT], tableEntryN), LAMBDA savedM :
    [m |-> savedM,
     ret |-> IF didSaveEntry(savedM) THEN "none" ELSE "tableError"]))))

\* the search of kvat.h 151-161: the first entry at or after searchID whose
\* key begins with key; the key found is fetched into the caller's buffer and
\* searchID is advanced past the entry.  Yields [ret, searchID, keyFound].
INITIALID == 1

KVATSearch(m0, key, searchID, keyFoundMaxSize) ==
    Bind(m0, LAMBDA m :
    IF ~m.didInit \/ key = NullKey
    THEN [ret |-> "invalidAccess", searchID |-> searchID, keyFound |-> <<>>]
    ELSE
    Bind(lookupByKey(m, key, TRUE, searchID), LAMBDA tableEntryN :
    IF tableEntryN = 0
    THEN [ret |-> "notFound", searchID |-> searchID, keyFound |-> <<>>]
    ELSE
    Bind(readTableEntry(m, tableEntryN), LAMBDA tableEntry :
    [ret |-> "none", searchID |-> tableEntryN + 1,
     keyFound |-> fetchData(m, tableEntry.keyPage,
                            Truthy(BitAnd(tableEntry.metadata, MKC_ISMULTIPLE)),
                            TRUE, keyFoundMaxSize, TRUE).record])))

\* a format that programs no entry
FormatLoopNone(m, entryN) == m

\* the loop ends at the first entry write that fails
RECURSIVE FormatLoop(_, _)
FormatLoop(m, entryN) ==
    IF entryN >= PAGECOUNT \/ ~didSaveEntry(m) THEN m
    ELSE FormatLoop(saveTableEntry(m, EmptyEntry, entryN), entryN + 1)

\* a format that programs the index before the entries
formatMemoryIndexFirst(m) ==
    IF m.didInit THEN [m |-> m, ret |-> "invalidAccess"]
    ELSE Bind(saveIndex([m EXCEPT !.index = FormattedIndex, !.programResult = 0]),
              LAMBDA saved :
         IF saved.programResult # 0 THEN [m |-> saved, ret |-> "storageFault"]
         ELSE Bind(FormatLoop(saved, 0), LAMBDA cleared :
              [m |-> cleared,
               ret |-> IF didSaveEntry(cleared) THEN "none" ELSE "tableError"]))

formatMemory(m) ==
    IF m.didInit THEN [m |-> m, ret |-> "invalidAccess"]
    ELSE Bind(FormatLoop([m EXCEPT !.index = FormattedIndex, !.programResult = 0], 0),
              LAMBDA cleared :
         IF ~didSaveEntry(cleared) THEN [m |-> cleared, ret |-> "tableError"]
         ELSE Bind(saveIndex(cleared), LAMBDA saved :
              [m |-> saved,
               ret |-> IF saved.programResult = 0 THEN "none" ELSE "storageFault"]))

\* KVATInit without its guard
KVATInitUnguarded(m0) ==
    Bind(m0, LAMBDA m :
    IF m.memInitError THEN [m |-> m, ret |-> "storageFault"]
    ELSE IF m.index = NULL /\ m.noIndexHeap THEN [m |-> m, ret |-> "heapError"]
    ELSE
    Bind(readIndex(m), LAMBDA loaded :
    Bind(IF loaded.index.formatID # FORMATID
         THEN formatMemory([loaded EXCEPT !.didInit = FALSE])
         ELSE [m |-> loaded, ret |-> "none"], LAMBDA formatted :
    IF formatted.ret # "none" THEN formatted
    ELSE Bind(updatePageRecord(formatted.m), LAMBDA updated :
         IF updated.pageRecord = NULL THEN [m |-> updated, ret |-> "recordFault"]
         ELSE [m |-> [updated EXCEPT !.didInit = TRUE], ret |-> "none"]))))

\* KVATInit setting didInit before the page record is built
KVATInitFlagFirst(m0) ==
    Bind(m0, LAMBDA m :
    IF m.didInit THEN [m |-> m, ret |-> "invalidAccess"]
    ELSE IF m.memInitError THEN [m |-> m, ret |-> "storageFault"]
    ELSE IF m.index = NULL /\ m.noIndexHeap THEN [m |-> m, ret |-> "heapError"]
    ELSE
    Bind(readIndex(m), LAMBDA loaded :
    Bind(IF loaded.index.formatID # FORMATID
         THEN formatMemory(loaded)
         ELSE [m |-> loaded, ret |-> "none"], LAMBDA formatted :
    IF formatted.ret # "none" THEN formatted
    ELSE Bind(updatePageRecord([formatted.m EXCEPT !.didInit = TRUE]), LAMBDA updated :
         IF updated.pageRecord = NULL THEN [m |-> updated, ret |-> "recordFault"]
         ELSE [m |-> updated, ret |-> "none"]))))

KVATInit(m0) ==
    Bind(m0, LAMBDA m :
    IF m.didInit THEN [m |-> m, ret |-> "invalidAccess"]
    ELSE IF m.memInitError THEN [m |-> m, ret |-> "storageFault"]
    ELSE IF m.index = NULL /\ m.noIndexHeap THEN [m |-> m, ret |-> "heapError"]
    ELSE
    Bind(readIndex(m), LAMBDA loaded :
    Bind(IF loaded.index.formatID # FORMATID
         THEN formatMemory(loaded)
         ELSE [m |-> loaded, ret |-> "none"], LAMBDA formatted :
    IF formatted.ret # "none" THEN formatted
    ELSE Bind(updatePageRecord(formatted.m), LAMBDA updated :
         IF updated.pageRecord = NULL THEN [m |-> updated, ret |-> "recordFault"]
         ELSE [m |-> [updated EXCEPT !.didInit = TRUE], ret |-> "none"]))))

(***************************************************************************)
(* The calls the host firmware makes.                                      *)
(***************************************************************************)
KeyA == <<1>>
KeyAB == <<1, 2>>
KeyLong == <<1, 1, 2, 1>>
Keys == {KeyA, KeyAB, KeyLong}

ValOne == <<5>>
ValTwoPages == <<5, 6, 7, 5, 6>>
\* one byte more than PAGECOUNT pages of a multiple chain hold
ValTooBig == [i \in 1..((PAGESIZE - 1) * PAGECOUNT + 1) |-> 6]
Values == {ValOne, ValTwoPages, ValTooBig}

\* what follows the caller's data in memory
PadBytes == {3}
\* what the allocator may leave in the first byte of a freed block: 0, or a
\* byte that is the number of another page
StaleBytes == {0, 3}

Stales == {Intact} \cup (IF staleReads < MaxStale THEN StaleBytes ELSE {})
StaleCount(a, b) ==
    (IF a = Intact THEN 0 ELSE 1) + (IF b = Intact THEN 0 ELSE 1)

NoProbe == [op |-> "none"]

\* the pages the record marks as used, page 0 included
MarkedPages(record) ==
    {p \in 0..(8 * Len(record) - 1) :
        Truthy(BitAnd(record[(p \div 8) + 1], Shl(1, p % 8)))}

\* what a call finds: the count of marked pages and of unmarked pages of
\* [1, PAGECOUNT)
Before ==
    [used |-> Cardinality(MarkedPages(pageRecord)),
     free |-> Cardinality((1..(PAGECOUNT - 1)) \ MarkedPages(pageRecord))]

\* the call made was op and left m
Writes(op, m) == entryWrites' = [op |-> op, steps |-> m.steps]

Commit(m) ==
    /\ didInit' = m.didInit
    /\ index' = m.index
    /\ pageRecord' = m.pageRecord
    /\ eeIndex' = m.eeIndex
    /\ eeTable' = m.eeTable
    /\ eePages' = m.eePages
    /\ heapOverrun' = m.heapOverrun

Init ==
    /\ didInit = FALSE
    /\ index = NULL
    /\ pageRecord = NULL
    /\ eeIndex = [formatID |-> 0, pageSize |-> 0, pageCount |-> 0,
                  pageBeginAddress |-> 0]
    /\ eeTable = [i \in 0..(PAGECOUNT - 1) |-> EmptyEntry]
    /\ eePages = [n \in 1..MaxByte |-> ZeroPage]
    /\ heapOverrun = FALSE
    /\ staleReads = 0
    /\ hist = <<>>
    /\ retrieved = NoProbe
    /\ entryWrites = [op |-> "none", steps |-> <<>>]

\* a behaviour is followed for MaxOps calls, and past a loss of power only
\* through the initialisation that follows it
CanCall ==
    /\ Len(hist) < MaxOps
    /\ hist # <<>> => hist[Len(hist)].op # "powerloss"

Init_KVAT ==
    /\ ~didInit
    /\ \E r \in {KVATInit(Machine(NoCut))} : Commit(r.m) /\ Writes("init", r.m)
    /\ retrieved' = NoProbe
    /\ UNCHANGED <<staleReads, hist>>

SaveValue ==
    /\ CanCall /\ didInit
    /\ \E key \in Keys, value \in Values, pad \in PadBytes,
          staleKey \in Stales, staleValue \in Stales :
         /\ staleReads + StaleCount(staleKey, staleValue) <= MaxStale
         /\ \E r \in {KVATSaveValue(Machine(NoCut), key, value, Len(value), pad,
                                    staleKey, staleValue)} :
               /\ Commit(r.m) /\ Writes("save", r.m)
               /\ hist' = Append(hist, [op |-> "save", key |-> key, value |-> value,
                                        ret |-> r.ret, before |-> Before])
         /\ staleReads' = staleReads + StaleCount(staleKey, staleValue)
    /\ retrieved' = NoProbe

ChangeKey ==
    /\ CanCall /\ didInit
    /\ \E currentKey \in Keys, newKey \in Keys, pad \in PadBytes,
          staleNew \in Stales, staleOld \in Stales :
         /\ staleReads + StaleCount(staleNew, staleOld) <= MaxStale
         \* the old key is written back only when the first write returned 0
         /\ staleOld # Intact => staleNew = 0
         /\ \E r \in {KVATChangeKey(Machine(NoCut), currentKey, newKey, pad,
                                    staleNew, staleOld)} :
               /\ Commit(r.m) /\ Writes("change", r.m)
               /\ hist' = Append(hist, [op |-> "change", key |-> currentKey,
                                        newKey |-> newKey, ret |-> r.ret,
                                        before |-> Before])
         /\ staleReads' = staleReads + StaleCount(staleNew, staleOld)
    /\ retrieved' = NoProbe

DeleteValue ==
    /\ CanCall /\ didInit
    /\ \E key \in Keys :
         \E r \in {KVATDeleteValue(Machine(NoCut), key)} :
            /\ Commit(r.m) /\ Writes("delete", r.m)
            /\ hist' = Append(hist, [op |-> "delete", key |-> key, ret |-> r.ret,
                                     before |-> Before])
    /\ retrieved' = NoProbe
    /\ UNCHANGED staleReads

RetrieveValue ==
    /\ didInit
    /\ retrieved = NoProbe
    /\ \E key \in Keys :
         retrieved' = [op |-> "retrieve", key |-> key]
                      @@ KVATRetrieveValue(Machine(NoCut), key, FALSE, 0)
    /\ UNCHANGED <<didInit, index, pageRecord, eeIndex, eeTable, eePages,
                   heapOverrun, staleReads, hist, entryWrites>>

Next ==
    \/ Init_KVAT
    \/ SaveValue
    \/ ChangeKey
    \/ DeleteValue
    \/ RetrieveValue

Spec == Init /\ [][Next]_vars

(***************************************************************************)
(* Loss of power during a call: the first cut storage programs of the call *)
(* reach the medium, the later ones do not, and the statics are lost.      *)
(***************************************************************************)
Interrupted(m) ==
    [m EXCEPT !.didInit = FALSE, !.index = NULL, !.pageRecord = NULL,
              !.heapOverrun = FALSE]

PowerLoss ==
    /\ CanCall /\ didInit
    /\ Len(hist) <= MaxCutDepth
    /\ \E cut \in 1..MaxCut, key \in Keys, pad \in PadBytes :
         \/ \E value \in Values :
              \E r \in {KVATSaveValue(Machine(cut), key, value, Len(value), pad,
                                      Intact, Intact)} :
                 /\ r.m.nw > cut
                 /\ Commit(Interrupted(r.m)) /\ Writes("save", r.m)
                 /\ hist' = Append(hist, [op |-> "powerloss", during |-> "save",
                                          key |-> key, value |-> value,
                                          cut |-> cut, before |-> Before])
         \/ \E newKey \in Keys :
              \E r \in {KVATChangeKey(Machine(cut), key, newKey, pad,
                                      Intact, Intact)} :
                 /\ r.m.nw > cut
                 /\ Commit(Interrupted(r.m)) /\ Writes("change", r.m)
                 /\ hist' = Append(hist, [op |-> "powerloss", during |-> "change",
                                          key |-> key, newKey |-> newKey,
                                          cut |-> cut, before |-> Before])
         \/ \E r \in {KVATDeleteValue(Machine(cut), key)} :
                 /\ r.m.nw > cut
                 /\ Commit(Interrupted(r.m)) /\ Writes("delete", r.m)
                 /\ hist' = Append(hist, [op |-> "powerloss", during |-> "delete",
                                          key |-> key, cut |-> cut,
                                          before |-> Before])
    /\ retrieved' = NoProbe
    /\ UNCHANGED staleReads

NextCrash ==
    \/ Init_KVAT
    \/ SaveValue
    \/ ChangeKey
    \/ DeleteValue
    \/ PowerLoss

SpecCrash == Init /\ [][NextCrash]_vars

(***************************************************************************)
(* Restart of the device between calls: the statics are lost, the storage  *)
(* is kept.  While the device is off the format id on storage may come to  *)
(* differ from FORMATID (a firmware built with another id wrote it, or the *)
(* word decayed).                                                          *)
(***************************************************************************)
Reboot ==
    /\ CanCall /\ didInit
    /\ Commit(Interrupted(Machine(NoCut)))
    /\ Writes("reboot", Machine(NoCut))
    /\ hist' = Append(hist, [op |-> "reboot"])
    /\ retrieved' = NoProbe
    /\ UNCHANGED staleReads

OtherFormatIDs == {0, FORMATID + 1}

CorruptFormat ==
    /\ CanCall /\ ~didInit
    /\ hist # <<>>
    /\ eeIndex.formatID = FORMATID
    /\ \E id \in OtherFormatIDs : eeIndex' = [eeIndex EXCEPT !.formatID = id]
    /\ hist' = Append(hist, [op |-> "corrupt"])
    /\ entryWrites' = [op |-> "corrupt", steps |-> <<>>]
    /\ retrieved' = NoProbe
    /\ UNCHANGED <<didInit, index, pageRecord, eeTable, eePages, heapOverrun,
                   staleReads>>

NextBoot ==
    \/ Init_KVAT
    \/ SaveValue
    \/ ChangeKey
    \/ DeleteValue
    \/ RetrieveValue
    \/ Reboot
    \/ CorruptFormat

SpecBoot == Init /\ [][NextBoot]_vars

(***************************************************************************)
(* Prefix search: a run of KVATSearch calls with one key, the first given  *)
(* INITIALID, each later one the searchID the call before it left.  The    *)
(* entries found so far are kept with the probe.                           *)
(***************************************************************************)
Prefixes == {KeyA, <<1, 1>>, KeyAB}

SearchFrom(key, searchID, found) ==
    \E r \in {KVATSearch(Machine(NoCut), key, searchID, STRINGKEYSTDLEN)} :
        retrieved' = [op |-> "search", key |-> key, ret |-> r.ret,
                      searchID |-> r.searchID,
                      found |-> IF r.ret = "none"
                                THEN Append(found, r.searchID - 1) ELSE found,
                      keyFound |-> r.keyFound]

Search ==
    /\ didInit
    /\ \/ retrieved = NoProbe /\ \E key \in Prefixes : SearchFrom(key, INITIALID, <<>>)
       \/ /\ retrieved.op = "search" /\ retrieved.ret = "none"
          /\ SearchFrom(retrieved.key, retrieved.searchID, retrieved.found)
    /\ UNCHANGED <<didInit, index, pageRecord, eeIndex, eeTable, eePages,
                   heapOverrun, staleReads, hist, entryWrites>>

NextSearch ==
    \/ Init_KVAT
    \/ SaveValue /\ hist'[Len(hist')].value = ValOne
    \/ DeleteValue
    \/ Search

SpecSearch == Init /\ [][NextSearch]_vars

(***************************************************************************)
(* Lookups with keys that are near the stored ones: a key that differs     *)
(* from KeyAB in its last character is asked for beside the keys saved.    *)
(***************************************************************************)
KeyAC == <<1, 3>>
LookupKeys == Keys \cup {KeyAC}

RetrieveNear ==
    /\ didInit
    /\ retrieved = NoProbe
    /\ \E key \in LookupKeys :
         retrieved' = [op |-> "retrieve", key |-> key]
                      @@ KVATRetrieveValue(Machine(NoCut), key, FALSE, 0)
    /\ UNCHANGED <<didInit, index, pageRecord, eeIndex, eeTable, eePages,
                   heapOverrun, staleReads, hist, entryWrites>>

NextLookup ==
    \/ Init_KVAT
    \/ SaveValue /\ hist'[Len(hist')].value = ValOne
    \/ ChangeKey
    \/ DeleteValue
    \/ RetrieveNear

SpecLookup == Init /\ [][NextLookup]_vars

(***************************************************************************)
(* Calls the engine is to refuse: calls made while it is not initialised,  *)
(* calls given a null key, and KVATInit when it is initialised already;    *)
(* and a KVATSaveValue during which MAP_EEPROMProgram reports a failure.   *)
(***************************************************************************)
KeyArguments == {KeyA, NullKey}

RefusedCall ==
    /\ CanCall
    /\ \E key \in KeyArguments, pad \in PadBytes :
         \/ /\ ~didInit \/ key = NullKey
            /\ \E r \in {KVATSaveValue(Machine(NoCut), key, ValOne, Len(ValOne), pad,
                                       Intact, Intact)} :
                  /\ Commit(r.m) /\ Writes("save", r.m)
                  /\ hist' = Append(hist, [op |-> "save", key |-> key,
                                           value |-> ValOne, ret |-> r.ret,
                                           before |-> Before, wasInit |-> didInit])
         \/ \E newKey \in KeyArguments :
              /\ ~didInit \/ key = NullKey \/ newKey = NullKey
              /\ \E r \in {KVATChangeKey(Machine(NoCut), key, newKey, pad,
                                         Intact, Intact)} :
                    /\ Commit(r.m) /\ Writes("change", r.m)
                    /\ hist' = Append(hist, [op |-> "change", key |-> key,
                                             newKey |-> newKey, ret |-> r.ret,
                                             before |-> Before, wasInit |-> didInit])
         \/ /\ ~didInit \/ key = NullKey
            /\ \E r \in {KVATDeleteValue(Machine(NoCut), key)} :
                  /\ Commit(r.m) /\ Writes("delete", r.m)
                  /\ hist' = Append(hist, [op |-> "delete", key |-> key,
                                           ret |-> r.ret, before |-> Before,
                                           wasInit |-> didInit])
    /\ retrieved' = NoProbe
    /\ UNCHANGED staleReads

RefusedRetrieve ==
    /\ retrieved = NoProbe
    /\ \E key \in KeyArguments :
         /\ ~didInit \/ key = NullKey
         /\ retrieved' = [op |-> "retrieve", key |-> key]
                         @@ KVATRetrieveValue(Machine(NoCut), key, FALSE, 0)
    /\ UNCHANGED <<didInit, index, pageRecord, eeIndex, eeTable, eePages,
                   heapOverrun, staleReads, hist, entryWrites>>

InitAgain ==
    /\ CanCall /\ didInit
    /\ \E r \in {KVATInit(Machine(NoCut))} :
         /\ Commit(r.m) /\ Writes("init", r.m)
         /\ hist' = Append(hist, [op |-> "init", ret |-> r.ret, wasInit |-> didInit])
    /\ retrieved' = NoProbe
    /\ UNCHANGED staleReads

\* failAt is a program the call makes; finalEntryWrite tells that it is the
\* entry program the call ends with when nothing fails.  One program fails
\* in a run.
SaveValueFault ==
    /\ CanCall /\ didInit
    /\ Len(hist) <= MaxFaultDepth
    /\ \A i \in 1..Len(hist) : "failAt" \notin DOMAIN hist[i]
    /\ \E key \in Keys, value \in {ValOne, ValTwoPages}, pad \in PadBytes,
          staleKey \in Stales, staleValue \in Stales,
          failAt \in 0..MaxFail, failLands \in BOOLEAN :
         /\ staleReads + StaleCount(staleKey, staleValue) <= MaxStale
         /\ \E r \in {KVATSaveValue(FaultyMachine(failAt, failLands), key, value,
                                    Len(value), pad, staleKey, staleValue)},
               clean \in {KVATSaveValue(Machine(NoCut), key, value, Len(value), pad,
                                        staleKey, staleValue)} :
               /\ r.m.nw > failAt
               /\ Commit(r.m) /\ Writes("save", r.m)
               /\ hist' = Append(hist,
                      [op |-> "save", key |-> key, value |-> value, ret |-> r.ret,
                       before |-> Before, failAt |-> failAt,
                       finalEntryWrite |-> (clean.ret = "none"
                                            /\ failAt = clean.m.nw - 1)])
         /\ staleReads' = staleReads + StaleCount(staleKey, staleValue)
    /\ retrieved' = NoProbe

NextRefuse ==
    \/ Init_KVAT
    \/ hist = <<>> /\ SaveValue
    \/ SaveValueFault
    \/ RefusedCall
    \/ RefusedRetrieve
    \/ InitAgain

SpecRefuse == Init /\ [][NextRefuse]_vars

(***************************************************************************)
(* A KVATChangeKey during which the environment fails: malloc returns NULL *)
(* for the buffers of its first or second writeData, the new key is too    *)
(* long for any chain, or a storage program is reported as failed.         *)
(***************************************************************************)
\* a key whose chain needs more than PAGECOUNT pages
KeyTooLong == [i \in 1..((PAGESIZE - 1) * PAGECOUNT) |-> 1]

\* the machine of a call with the given failures
TroubledMachine(failAt, failLands, noHeapAt) ==
    [FaultyMachine(failAt, failLands) EXCEPT !.noHeapAt = noHeapAt]

ChangeKeyFault ==
    /\ CanCall /\ didInit
    /\ Len(hist) <= MaxFaultDepth
    /\ \E currentKey \in Keys, newKey \in Keys \cup {KeyTooLong}, pad \in PadBytes,
          staleNew \in Stales, staleOld \in Stales,
          failAt \in {NoCut} \cup 0..MaxFail, failLands \in BOOLEAN,
          noHeapAt \in SUBSET {0, 1} :
         /\ staleReads + StaleCount(staleNew, staleOld) <= MaxStale
         /\ failAt = NoCut => ~failLands
         /\ failAt # NoCut \/ noHeapAt # {} \/ newKey = KeyTooLong
         /\ \E r \in {KVATChangeKey(TroubledMachine(failAt, failLands, noHeapAt),
                                    currentKey, newKey, pad, staleNew, staleOld)} :
               /\ r.m.nw > failAt
               /\ r.m.allocs > 0
               /\ \A k \in noHeapAt : k < r.m.allocs
               \* a read of the freed pagesUsed happens only in a writeData
               \* that got its buffers
               /\ staleNew # Intact => 0 \notin noHeapAt /\ newKey # KeyTooLong
               /\ staleOld # Intact => r.m.allocs = 2 /\ 1 \notin noHeapAt
               /\ Commit(r.m) /\ Writes("change", r.m)
               /\ hist' = Append(hist, [op |-> "change", key |-> currentKey,
                                        newKey |-> newKey, ret |-> r.ret,
                                        before |-> Before, failAt |-> failAt,
                                        noHeapAt |-> noHeapAt])
         /\ staleReads' = staleReads + StaleCount(staleNew, staleOld)
    /\ retrieved' = NoProbe

NextRename ==
    \/ Init_KVAT
    \/ SaveValue
    \/ ChangeKey
    \/ DeleteValue
    \/ RetrieveValue
    \/ ChangeKeyFault

SpecRename == Init /\ [][NextRename]_vars

(***************************************************************************)
(* A KVATInit during which the environment may fail: MAP_EEPROMInit        *)
(* reports an error, malloc returns NULL for the index or for the page     *)
(* record, or a storage program of the format is reported as failed.       *)
(***************************************************************************)
InitCall ==
    /\ CanCall /\ ~didInit
    /\ \E memInitError \in BOOLEAN, noIndexHeap \in BOOLEAN, noRecordHeap \in BOOLEAN,
          failAt \in {NoCut} \cup 0..MaxFail, failLands \in BOOLEAN :
         /\ failAt = NoCut => ~failLands
         /\ \E r \in {KVATInit([FaultyMachine(failAt, failLands) EXCEPT
                                    !.memInitError = memInitError,
                                    !.noIndexHeap = noIndexHeap,
                                    !.noRecordHeap = noRecordHeap])} :
               /\ r.m.nw > failAt
               /\ Commit(r.m) /\ Writes("init", r.m)
               /\ hist' = Append(hist, [op |-> "init", ret |-> r.ret,
                                        wasInit |-> didInit])
    /\ retrieved' = NoProbe
    /\ UNCHANGED staleReads

NextInit ==
    \/ Init_KVAT
    \/ InitCall
    \/ SaveValue
    \/ Reboot
    \/ CorruptFormat
    \/ RefusedCall
    \/ RefusedRetrieve

SpecInit == Init /\ [][NextInit]_vars

(***************************************************************************)
(* The paging functions applied to the states the public calls lead to:    *)
(* getEmptyPageNumber, and writeData with the arguments KVATSaveValue and  *)
(* KVATChangeKey give it (no reuse chain, or the key or value chain of an  *)
(* ACTIVE entry).  What the function returned and the page record and the  *)
(* pages it left are kept with the probe; the engine's state is left as it *)
(* was, so that each application starts from a state the calls reached.    *)
(***************************************************************************)
\* sizes of one page, of two and three pages with and without remains, of
\* PAGECOUNT pages, of one page too many, and one whose count of pages does
\* not fit PageNumber: 256 pages and 2 bytes
ChainSizes ==
    {1, PAGESIZE, PAGESIZE + 1, 2 * (PAGESIZE - 1), 2 * (PAGESIZE - 1) + 1,
     PAGECOUNT * (PAGESIZE - 1), PAGECOUNT * (PAGESIZE - 1) + 1,
     256 * (PAGESIZE - 1) + 2}

ProbeData(size) == [i \in 1..size |-> 6]

\* the chain of an entry as a caller hands it to writeData
NoReuse == [start |-> 0, isMultiple |-> FALSE]

ReuseChoices ==
    {NoReuse}
    \cup {[start |-> eeTable[n].keyPage,
           isMultiple |-> Truthy(BitAnd(eeTable[n].metadata, MKC_ISMULTIPLE))] :
            n \in {e \in 1..(PAGECOUNT - 1) : Truthy(BitAnd(eeTable[e].metadata, MACTIVE))}}
    \cup {[start |-> eeTable[n].valuePage,
           isMultiple |-> Truthy(BitAnd(eeTable[n].metadata, MVC_ISMULTIPLE))] :
            n \in {e \in 1..(PAGECOUNT - 1) : Truthy(BitAnd(eeTable[e].metadata, MACTIVE))}}

FindFree ==
    /\ didInit
    /\ retrieved = NoProbe
    /\ \E shouldMarkAsUsed \in BOOLEAN :
         \E r \in {getEmptyPageNumber(Machine(NoCut), shouldMarkAsUsed)} :
            retrieved' = [op |-> "findFree", shouldMarkAsUsed |-> shouldMarkAsUsed,
                          page |-> r.page, pageRecord |-> r.m.pageRecord,
                          heapOverrun |-> r.m.heapOverrun]
    /\ UNCHANGED <<didInit, index, pageRecord, eeIndex, eeTable, eePages,
                   heapOverrun, staleReads, hist, entryWrites>>

WriteChain ==
    /\ didInit
    /\ retrieved = NoProbe
    /\ \E size \in ChainSizes, reuse \in ReuseChoices, pad \in PadBytes,
          stale \in {Intact} \cup StaleBytes :
         \E r \in {writeData(Machine(NoCut), ProbeData(size), size, reuse.start,
                              reuse.isMultiple, pad, stale)} :
            retrieved' = [op |-> "writeChain", size |-> size, reuse |-> reuse,
                          stale |-> stale, page |-> r.page,
                          isMultiple |-> r.isMultiple, remains |-> r.remains,
                          pageRecord |-> r.m.pageRecord, eePages |-> r.m.eePages,
                          heapOverrun |-> r.m.heapOverrun, nw |-> r.m.nw]
    /\ UNCHANGED <<didInit, index, pageRecord, eeIndex, eeTable, eePages,
                   heapOverrun, staleReads, hist, entryWrites>>

\* the calls that lead to the states probed read the stored first page; a
\* behaviour ends with the probe
NextPages ==
    \/ Init_KVAT
    \/ retrieved = NoProbe /\ SaveValue /\ staleReads' = staleReads
    \/ retrieved = NoProbe /\ DeleteValue
    \/ FindFree
    \/ WriteChain

SpecPages == Init /\ [][NextPages]_vars

(***************************************************************************)
(* KVATSaveValue with the order of its storage programs kept: the call as  *)
(* SaveValue makes it, or with one of its programs reported as failed.     *)
(***************************************************************************)
SaveValueTraced ==
    /\ CanCall /\ didInit
    /\ \E key \in Keys, value \in Values, pad \in PadBytes,
          staleKey \in Stales, staleValue \in Stales,
          failAt \in {NoCut} \cup 0..MaxFail, failLands \in BOOLEAN :
         /\ staleReads + StaleCount(staleKey, staleValue) <= MaxStale
         /\ failAt = NoCut => ~failLands
         \* one program fails in a run
         /\ failAt # NoCut
               => /\ Len(hist) <= MaxFaultDepth
                  /\ \A i \in 1..Len(hist) :
                        "failAt" \in DOMAIN hist[i] => hist[i].failAt = NoCut
         /\ \E r \in {KVATSaveValue(FaultyMachine(failAt, failLands), key, value,
                                    Len(value), pad, staleKey, staleValue)} :
               /\ r.m.nw > failAt
               /\ Commit(r.m) /\ Writes("save", r.m)
               /\ hist' = Append(hist,
                      [op |-> "save", key |-> key, value |-> value, ret |-> r.ret,
                       before |-> Before, failAt |-> failAt,
                       programs |-> r.m.programs])
         /\ staleReads' = staleReads + StaleCount(staleKey, staleValue)
    /\ retrieved' = NoProbe

NextOrder ==
    \/ Init_KVAT
    \/ SaveValueTraced
    \/ DeleteValue

SpecOrder == Init /\ [][NextOrder]_vars

(***************************************************************************)
(* A table without a free slot: once every entry of [1, PAGECOUNT) holds   *)
(* ACTIVE or OPEN, one more KVATSaveValue is made.                         *)
(***************************************************************************)
TableFull ==
    \A n \in 1..(PAGECOUNT - 1) :
        Truthy(BitAnd(eeTable[n].metadata, BitOr(MACTIVE, MOPEN)))

SaveOnFullTable ==
    /\ didInit
    /\ Len(hist) = MaxOps
    /\ TableFull
    /\ \E key \in Keys, value \in Values, pad \in PadBytes,
          staleKey \in Stales, staleValue \in Stales :
         /\ staleReads + StaleCount(staleKey, staleValue) <= MaxStale
         /\ \E r \in {KVATSaveValue(Machine(NoCut), key, value, Len(value), pad,
                                    staleKey, staleValue)} :
               /\ Commit(r.m) /\ Writes("save", r.m)
               /\ hist' = Append(hist, [op |-> "save", key |-> key, value |-> value,
                                        ret |-> r.ret, before |-> Before])
         /\ staleReads' = staleReads + StaleCount(staleKey, staleValue)
    /\ retrieved' = NoProbe

NextSlots ==
    \/ Init_KVAT
    \/ SaveValue
    \/ DeleteValue
    \/ SaveOnFullTable

SpecSlots == Init /\ [][NextSlots]_vars

(***************************************************************************)
(* A KVATDeleteValue whose entry program MAP_EEPROMProgram reports as      *)
(* failed.                                                                 *)
(***************************************************************************)
DeleteValueFault ==
    /\ CanCall /\ didInit
    /\ Len(hist) <= MaxFaultDepth
    /\ \E key \in Keys, failAt \in 0..MaxFail, failLands \in BOOLEAN :
         \E r \in {KVATDeleteValue(FaultyMachine(failAt, failLands), key)} :
            /\ r.m.nw > failAt
            /\ Commit(r.m) /\ Writes("delete", r.m)
            /\ hist' = Append(hist, [op |-> "delete", key |-> key, ret |-> r.ret,
                                     before |-> Before, failAt |-> failAt,
                                     failLands |-> failLands])
    /\ retrieved' = NoProbe
    /\ UNCHANGED staleReads

NextDelete ==
    \/ Init_KVAT
    \/ SaveValue
    \/ DeleteValue
    \/ DeleteValueFault
    \/ RetrieveValue

SpecDelete == Init /\ [][NextDelete]_vars

(***************************************************************************)
(* KVATRetrieveValue given a buffer of the caller, as                      *)
(* KVATRetrieveValueByBuffer calls it: buffers shorter than a page, of a   *)
(* page, and up to longer than the longest value stored.  A behaviour ends *)
(* with the retrieval.                                                     *)
(***************************************************************************)
BufferSizes == {1, PAGESIZE - 1, PAGESIZE, PAGESIZE + 1, 2 * (PAGESIZE - 1) + 1}

RetrieveByBuffer ==
    /\ didInit
    /\ retrieved = NoProbe
    /\ \E key \in Keys, retrieveBufferSize \in BufferSizes :
         retrieved' = [op |-> "retrieveByBuffer", key |-> key,
                       retrieveBufferSize |-> retrieveBufferSize]
                      @@ KVATRetrieveValue(Machine(NoCut), key, TRUE,
                                           retrieveBufferSize)
    /\ UNCHANGED <<didInit, index, pageRecord, eeIndex, eeTable, eePages,
                   heapOverrun, staleReads, hist, entryWrites>>

NextBuffer ==
    \/ Init_KVAT
    \/ retrieved = NoProbe /\ SaveValue
    \/ RetrieveByBuffer

SpecBuffer == Init /\ [][NextBuffer]_vars

(***************************************************************************)
(* Storage whose link bytes are not what the engine wrote: between calls   *)
(* the first byte of a page of the paging region comes to hold another     *)
(* byte, so that links form cycles (a page naming itself or a page before  *)
(* it) or name pages outside [1, PAGECOUNT).  The chain walks are then     *)
(* applied from every page, and KVATInit (after a restart),                *)
(* KVATRetrieveValue and KVATDeleteValue are called on the storage.  The   *)
(* number of links the walks read is kept with the probe, with which a     *)
(* behaviour ends.                                                         *)
(***************************************************************************)
\* no link, the first two pages, the first page number outside the paging
\* region and the last page number the modelled storage holds
CorruptLinks == {0, 1, 2, PAGECOUNT, MaxByte}

CorruptLink ==
    /\ CanCall /\ didInit
    /\ \E pageNumber \in 1..PAGECOUNT, link \in CorruptLinks :
         /\ eePages[pageNumber][1] # link
         /\ eePages' = [eePages EXCEPT ![pageNumber][1] = link]
         /\ hist' = Append(hist, [op |-> "corruptLink", page |-> pageNumber,
                                  link |-> link])
    /\ entryWrites' = [op |-> "corruptLink", steps |-> <<>>]
    /\ retrieved' = NoProbe
    /\ UNCHANGED <<didInit, index, pageRecord, eeIndex, eeTable, heapOverrun,
                   staleReads>>

WalkChain ==
    /\ didInit
    /\ retrieved = NoProbe
    /\ \E chainStart \in 1..MaxByte, isChainMultiple \in BOOLEAN, isActive \in BOOLEAN :
         retrieved' =
            [op |-> "walk", isChainMultiple |-> isChainMultiple,
             followReads |-> followPageChainAndSetPageRecord(
                                 Machine(NoCut), chainStart, isActive,
                                 isChainMultiple).linkReads,
             fetchReads |-> fetchData(Machine(NoCut), chainStart, isChainMultiple,
                                      FALSE, 0, FALSE).linkReads,
             rebuildReads |-> updatePageRecord(Machine(NoCut)).linkReads]
    /\ UNCHANGED <<didInit, index, pageRecord, eeIndex, eeTable, eePages,
                   heapOverrun, staleReads, hist, entryWrites>>

NextWalk ==
    \/ Init_KVAT
    \/ retrieved = NoProbe /\ SaveValue /\ staleReads' = staleReads
    \/ retrieved = NoProbe /\ DeleteValue
    \/ retrieved = NoProbe /\ Reboot
    \/ retrieved = NoProbe /\ CorruptLink
    \/ RetrieveValue
    \/ WalkChain

SpecWalk == Init /\ [][NextWalk]_vars

(***************************************************************************)
(* A KVATInit whose format does not run to its end: power is lost after    *)
(* some of its storage programs, or MAP_EEPROMProgram reports one of them  *)
(* as failed.  It happens once in a run, on storage never formatted or on  *)
(* storage whose format id came to differ after values were stored.        *)
(***************************************************************************)
FormatFault ==
    /\ ~didInit
    /\ Len(hist) <= MaxOps
    /\ \A i \in 1..Len(hist) : "programs" \notin DOMAIN hist[i]
    /\ \/ \E failAt \in 0..MaxFail, failLands \in BOOLEAN :
            \E r \in {KVATInit(FaultyMachine(failAt, failLands))} :
               /\ r.m.nw > failAt
               /\ Commit(r.m) /\ Writes("init", r.m)
               /\ hist' = Append(hist, [op |-> "init", ret |-> r.ret,
                                        wasInit |-> didInit, failAt |-> failAt,
                                        programs |-> r.m.programs])
       \/ \E cut \in 1..MaxCut :
            \E r \in {KVATInit(Machine(cut))} :
               /\ r.m.nw > cut
               /\ Commit(Interrupted(r.m)) /\ Writes("init", r.m)
               /\ hist' = Append(hist, [op |-> "powerloss", during |-> "init",
                                        cut |-> cut,
                                        programs |-> SubSeq(r.m.programs, 1, cut)])
    /\ retrieved' = NoProbe
    /\ UNCHANGED staleReads

NextFormat ==
    \/ Init_KVAT
    \/ SaveValue
    \/ Reboot
    \/ CorruptFormat
    \/ FormatFault
    \/ RetrieveValue

SpecFormat == Init /\ [][NextFormat]_vars

(***************************************************************************)
(* The vocabulary of the properties.                                       *)
(***************************************************************************)
Last == hist[Len(hist)]
Prev == hist[Len(hist) - 1]

OkSave(h) == h.op = "save" /\ h.ret = "none"
OkDelete(h) == h.op = "delete" /\ h.ret = "none"
OkChange(h) == h.op = "change" /\ h.ret = "none"

\* the pages a chain of size bytes takes
PagesOf(size) ==
    IF size <= PAGESIZE THEN 1 ELSE (size + PAGESIZE - 2) \div (PAGESIZE - 1)

\* the key and the value of a save fit in the pages that were free
Fits(h) == h.before.free >= PagesOf(Len(h.key) + 1) + PagesOf(Len(h.value))

NoValue == <<>>

\* what the calls made so far are to have stored under each key
RECURSIVE Expect(_)
Expect(h) ==
    IF h = <<>> THEN [k \in Keys |-> NoValue]
    ELSE Bind(Expect(SubSeq(h, 1, Len(h) - 1)), LAMBDA prev :
         Bind(h[Len(h)], LAMBDA c :
         IF c.op = "powerloss" THEN prev
         ELSE IF c.ret # "none" THEN prev
         ELSE IF c.op = "save" THEN [prev EXCEPT ![c.key] = c.value]
         ELSE IF c.op = "delete" THEN [prev EXCEPT ![c.key] = NoValue]
         ELSE [[prev EXCEPT ![c.key] = NoValue] EXCEPT ![c.newKey] = prev[c.key]]))

ExpectBefore == Expect(SubSeq(hist, 1, Len(hist) - 1))

\* the last call made was KVATRetrieveValue(k)
Probed(k) == retrieved.op = "retrieve" /\ retrieved.key = k

\* it returned v with size |v|
Returns(v) ==
    /\ retrieved.ret = "none"
    /\ retrieved.size = Len(v)
    /\ Len(retrieved.value) >= Len(v)
    /\ SubSeq(retrieved.value, 1, Len(v)) = v

\* the pages of a chain on storage, in the order the links give them, up to
\* n of them
RECURSIVE ChainFrom(_, _, _)
ChainFrom(page, isMultiple, n) ==
    IF page = 0 \/ n = 0 THEN <<>>
    ELSE IF ~isMultiple \/ page \notin DOMAIN eePages THEN <<page>>
    ELSE <<page>> \o ChainFrom(eePages[page][1], TRUE, n - 1)

ChainOf(start, isMultiple) == ChainFrom(start, isMultiple, MaxByte + 1)

KeyChain(n) ==
    ChainOf(eeTable[n].keyPage, Truthy(BitAnd(eeTable[n].metadata, MKC_ISMULTIPLE)))

ValueChain(n) ==
    ChainOf(eeTable[n].valuePage, Truthy(BitAnd(eeTable[n].metadata, MVC_ISMULTIPLE)))

IsActive(n) == Truthy(BitAnd(eeTable[n].metadata, MACTIVE))
IsOpen(n) == Truthy(BitAnd(eeTable[n].metadata, MOPEN))

RECURSIVE ReachableFrom(_)
ReachableFrom(n) ==
    IF n >= PAGECOUNT THEN <<>>
    ELSE (IF IsActive(n) THEN KeyChain(n) \o ValueChain(n) ELSE <<>>)
         \o ReachableFrom(n + 1)

\* the pages of the chains of all ACTIVE entries, one occurrence per visit
ReachablePages == ReachableFrom(1)

NoRepeat(pages) ==
    \A i, j \in DOMAIN pages : i # j => pages[i] # pages[j]

\* the chain neither revisits a page nor runs on past the bound of the walk
Terminated(chain) == NoRepeat(chain) /\ Len(chain) <= MaxByte

WellFormed(chain) == chain # <<>> /\ Terminated(chain) /\ Len(chain) <= PAGECOUNT

UsedCount == Cardinality(MarkedPages(pageRecord))

(***************************************************************************)
(* The properties.                                                         *)
(***************************************************************************)

\* C1: a save_value(k, v) that fits in the free pages and returns ok,
\* followed by retrieve_value(k), gives ok with the bytes of v and size |v|.
C1_SaveThenRetrieve ==
    (hist # <<>> /\ OkSave(Last) /\ Fits(Last) /\ Probed(Last.key))
        => Returns(Last.value)

\* C2: after any sequence of calls on an initialized engine the page record
\* in memory equals the one a fresh rebuild computes from storage.
C2_RecordIsRebuild ==
    didInit => pageRecord = updatePageRecord(Machine(NoCut)).pageRecord

\* C3: no page occurs twice among the pages reachable from the ACTIVE
\* entries' key and value chains, and page 0 is not among them.
C3_NoPageTwice ==
    didInit =>
        /\ NoRepeat(ReachablePages)
        /\ \A n \in 1..(PAGECOUNT - 1) :
              IsActive(n) => eeTable[n].keyPage # 0 /\ eeTable[n].valuePage # 0

\* the last three calls were save(k1, v1), save(k2, v2), save(k1, v1') with
\* k1 # k2 and v1' taking another number of pages than v1, all returning ok
OverwriteBesideOther(a, b, c) ==
    /\ OkSave(a) /\ OkSave(b) /\ OkSave(c)
    /\ a.key = c.key /\ b.key # a.key
    /\ PagesOf(Len(c.value)) # PagesOf(Len(a.value))

C4Step ==
    (/\ Len(hist) >= 2
     /\ Len(hist') = Len(hist) + 1
     /\ OverwriteBesideOther(Prev, Last, hist'[Len(hist')]))
        => \A n \in 1..(PAGECOUNT - 1) :
              n = lookupByKey(Machine(NoCut), Last.key, FALSE, 1) =>
                 /\ eeTable'[n] = eeTable[n]
                 /\ \A i \in DOMAIN (KeyChain(n) \o ValueChain(n)) :
                       LET p == (KeyChain(n) \o ValueChain(n))[i]
                       IN p \in DOMAIN eePages => eePages'[p] = eePages[p]

\* C4: after save(k1, v1); save(k2, v2); save(k1, v1') with k1 # k2 and v1'
\* larger or smaller than v1, retrieve(k2) returns v2 with size |v2|, and the
\* overwrite leaves k2's entry record and the pages of k2's chains unchanged.
C4_OverwriteLeavesOthers ==
    /\ []((/\ Len(hist) >= 3
           /\ OverwriteBesideOther(hist[Len(hist) - 2], Prev, Last)
           /\ Probed(Prev.key))
             => Returns(Prev.value))
    /\ [][C4Step]_vars

\* the call is change_key(k1, k2) with k1 and k2 both stored
RenameOntoStored(stored, c) ==
    /\ c.op = "change" /\ c.key # c.newKey
    /\ stored[c.key] # NoValue /\ stored[c.newKey] # NoValue

C5Step ==
    (/\ Len(hist') = Len(hist) + 1
     /\ RenameOntoStored(Expect(hist), hist'[Len(hist')]))
        => UNCHANGED <<eeIndex, eeTable, eePages, pageRecord>>

\* C5: with k1 and k2 both stored, change_key(k1, k2) returns KeyDuplicate
\* and modifies nothing; retrieve(k1) and retrieve(k2) still return their
\* own values.
C5_RenameOntoStoredRefused ==
    /\ []((hist # <<>> /\ RenameOntoStored(ExpectBefore, Last))
             => /\ Last.ret = "keyDuplicate"
                /\ \A k \in {Last.key, Last.newKey} :
                      Probed(k) => Returns(ExpectBefore[k]))
    /\ [][C5Step]_vars

\* C6: after save(k, v1) and save(k, v2) both returning ok, retrieve(k)
\* returns v2 with size |v2|, and the count of pages marked used is the
\* count before the second save less the pages of v1 plus the pages of v2.
C6_OverwriteReplaces ==
    (Len(hist) >= 2 /\ OkSave(Prev) /\ OkSave(Last) /\ Prev.key = Last.key)
        => /\ Probed(Last.key) => Returns(Last.value)
           /\ UsedCount = Last.before.used - PagesOf(Len(Prev.value))
                          + PagesOf(Len(Last.value))

\* C7: after save_value(k, v) and delete_value(k) both returning ok,
\* retrieve_value(k) returns NotFound, a second delete_value(k) returns
\* NotFound, and every other stored key is retrieved with its own value.
C7_DeleteRemoves ==
    /\ (Len(hist) >= 2 /\ OkSave(Prev) /\ OkDelete(Last) /\ Prev.key = Last.key)
          => /\ Probed(Last.key) => retrieved.ret = "notFound"
             /\ \A k \in Keys \ {Last.key} :
                   (Expect(hist)[k] # NoValue /\ Probed(k))
                      => Returns(Expect(hist)[k])
    /\ (/\ Len(hist) >= 3
        /\ OkSave(hist[Len(hist) - 2]) /\ OkDelete(Prev)
        /\ hist[Len(hist) - 2].key = Prev.key
        /\ Last.op = "delete" /\ Last.key = Prev.key)
          => Last.ret = "notFound"

\* C8: after save(old, v) and change_key(old, new) returning ok, new not
\* being a stored key, retrieve(old) returns NotFound and retrieve(new)
\* returns v with size |v|.
C8_RenameMoves ==
    (/\ Len(hist) >= 2
     /\ OkSave(Prev) /\ OkChange(Last) /\ Prev.key = Last.key
     /\ ExpectBefore[Last.newKey] = NoValue)
        => /\ Probed(Last.key) => retrieved.ret = "notFound"
           /\ Probed(Last.newKey) => Returns(Prev.value)

\* C9: after execution stopped between two storage writes of a call and the
\* engine was initialized again, the chains of every ACTIVE entry are
\* acyclic, end with link 0, stay in [1, PAGECOUNT) and share no page.
C9_ChainsAfterPowerLoss ==
    (didInit /\ hist # <<>> /\ Last.op = "powerloss")
        => /\ \A n \in 1..(PAGECOUNT - 1) :
                 IsActive(n) =>
                    /\ Terminated(KeyChain(n)) /\ Terminated(ValueChain(n))
                    /\ \A i \in DOMAIN (KeyChain(n) \o ValueChain(n)) :
                          (KeyChain(n) \o ValueChain(n))[i] \in 1..(PAGECOUNT - 1)
           /\ NoRepeat(ReachablePages)

\* C10: when no call is in progress every entry in [1, PAGECOUNT) has
\* metadata 0, or has ACTIVE set, OPEN clear and well-formed chains.
C10_NoEntryLeftOpen ==
    \A n \in 1..(PAGECOUNT - 1) :
        \/ eeTable[n].metadata = 0
        \/ /\ IsActive(n) /\ ~IsOpen(n)
           /\ WellFormed(KeyChain(n)) /\ WellFormed(ValueChain(n))


\* ---- entry states across the entry programs of a call ----
EntryState(metadata) ==
    IF metadata = MDEFAULT THEN "Empty"
    ELSE IF Truthy(BitAnd(metadata, MACTIVE)) THEN "Active"
    ELSE IF Truthy(BitAnd(metadata, MOPEN)) THEN "Open"
    ELSE "Other"

\* the changes of state the entry programs of the last call made
Moves ==
    {<<EntryState(entryWrites.steps[i].from), EntryState(entryWrites.steps[i].to)>> :
        i \in 1..Len(entryWrites.steps)}
    \ {<<c, c>> : c \in {"Empty", "Open", "Active", "Other"}}

SaveMoves == {<<"Empty", "Open">>, <<"Open", "Active">>, <<"Active", "Open">>}
DeleteMoves == {<<"Active", "Empty">>}
FormatMoves == {<<"Active", "Empty">>, <<"Open", "Empty">>}

\* C11: the entry programs of a save move an entry only Empty -> Open,
\* Open -> Active or Active -> Open, those of a delete only Active -> Empty,
\* and no other public call moves an entry from one state to another.
C11_EntryTransitions ==
    /\ entryWrites.op = "save" => Moves \subseteq SaveMoves
    /\ entryWrites.op = "delete" => Moves \subseteq DeleteMoves
    /\ entryWrites.op \in {"change", "init"} => Moves = {}

\* C11 (amended): as C11, but KVATChangeKey may also move an entry
\* Active -> Empty (both key writes failed), and KVATInit, when it formats,
\* moves entries Active -> Empty and Open -> Empty.
C11_EntryTransitionsAmended ==
    /\ entryWrites.op = "save" => Moves \subseteq SaveMoves
    /\ entryWrites.op = "delete" => Moves \subseteq DeleteMoves
    /\ entryWrites.op = "change" => Moves \subseteq DeleteMoves
    /\ entryWrites.op = "init" => Moves \subseteq FormatMoves

\* the initialisation that followed a save of a new key (Empty -> Open ->
\* Active) and a change of the format id emptied the Active entry
C11_Witness ==
    /\ didInit
    /\ entryWrites.op = "init"
    /\ <<"Active", "Empty">> \in Moves
    /\ OkSave(hist[1])

\* ---- what the chains on storage hold ----
\* the payload bytes of the pages of a chain, in order
RECURSIVE PayloadOf(_, _)
PayloadOf(chain, isMultiple) ==
    IF chain = <<>> THEN <<>>
    ELSE (IF Head(chain) \notin DOMAIN eePages THEN <<>>
          ELSE IF isMultiple THEN Tail(eePages[Head(chain)])
          ELSE eePages[Head(chain)])
         \o PayloadOf(Tail(chain), isMultiple)

\* the key an entry holds on storage: the bytes of its key chain before the
\* first 0
StoredKey(n) ==
    Bind(PayloadOf(KeyChain(n), Truthy(BitAnd(eeTable[n].metadata, MKC_ISMULTIPLE))),
         LAMBDA bytes : SubSeq(bytes, 1, strlen(bytes)))

\* the bytes the value chain of an entry can hold
ValueCapacity(n) ==
    Len(ValueChain(n)) * (IF Truthy(BitAnd(eeTable[n].metadata, MVC_ISMULTIPLE))
                          THEN PAGESIZE - 1 ELSE PAGESIZE)

\* C12: for every ACTIVE entry whose key the calls made so far have stored a
\* value under, the capacity of its value chain less its remains is the
\* size of that value.
C12_RemainsGivesSize ==
    didInit =>
        \A n \in 1..(PAGECOUNT - 1) : \A k \in Keys :
            (IsActive(n) /\ StoredKey(n) = k /\ Expect(hist)[k] # NoValue)
                => ValueCapacity(n) - eeTable[n].remains = Len(Expect(hist)[k])

\* ---- what a save needs ----
\* the ACTIVE entries that hold key k on storage
EntriesOf(k) == {n \in 1..(PAGECOUNT - 1) : IsActive(n) /\ StoredKey(n) = k}

\* the entry slots of [1, PAGECOUNT) that hold neither ACTIVE nor OPEN
FreeSlots ==
    {n \in 1..(PAGECOUNT - 1) : ~IsActive(n) /\ ~IsOpen(n)}

\* the pages a save of value under key takes beyond those of the value chain
\* it replaces
NewPagesNeeded(key, value) ==
    IF EntriesOf(key) = {}
    THEN PagesOf(Len(key) + 1) + PagesOf(Len(value))
    ELSE Bind(Len(ValueChain(CHOOSE n \in EntriesOf(key) : TRUE)), LAMBDA old :
         IF PagesOf(Len(value)) > old THEN PagesOf(Len(value)) - old ELSE 0)

C13Step ==
    (/\ didInit
     /\ Len(hist') = Len(hist) + 1
     /\ hist'[Len(hist')].op = "save")
    => Bind(hist'[Len(hist')], LAMBDA c :
       (\/ EntriesOf(c.key) = {} /\ FreeSlots = {}
        \/ Before.free < NewPagesNeeded(c.key, c.value))
       => c.ret = "insufficientSpace")

\* C13: a KVATSaveValue call made when the key is new and no entry slot is
\* free, or when fewer pages are free than the new pages its chains need,
\* returns insufficientSpace.
C13_NoSpaceIsReported == [][C13Step]_vars

\* C14: after a KVATSaveValue(k, v) that returned none, a restart and the
\* KVATInit that follows it, the initialisation has programmed no entry (it
\* did not format) and KVATRetrieveValue(k) returns v with size |v|.
C14_ValueSurvivesRestart ==
    (/\ Len(hist) >= 2
     /\ Last.op = "reboot"
     /\ OkSave(Prev)
     /\ didInit)
    => /\ entryWrites = [op |-> "init", steps |-> <<>>]
       /\ Probed(Prev.key) => Returns(Prev.value)

CallStep ==
    /\ Len(hist') = Len(hist) + 1
    /\ hist'[Len(hist')].op \in {"save", "change", "delete"}

\* ... made while the engine is not initialised or with a null key argument
RefusedCallStep ==
    /\ CallStep
    /\ \/ ~didInit
       \/ hist'[Len(hist')].key = NullKey
       \/ hist'[Len(hist')].op = "change" /\ hist'[Len(hist')].newKey = NullKey

InitAgainStep ==
    /\ Len(hist') = Len(hist) + 1
    /\ hist'[Len(hist')].op = "init"
    /\ didInit

RefusedRetrieveStep ==
    /\ retrieved' # retrieved
    /\ retrieved'.op = "retrieve"
    /\ ~didInit \/ retrieved'.key = NullKey

Untouched == UNCHANGED <<didInit, pageRecord, eeIndex, eeTable, eePages>>

C16Step ==
    /\ (RefusedCallStep \/ InitAgainStep)
          => hist'[Len(hist')].ret = "invalidAccess" /\ Untouched
    /\ RefusedRetrieveStep
          => retrieved'.ret = "invalidAccess" /\ Untouched

\* C16: KVATSaveValue, KVATRetrieveValue, KVATChangeKey and KVATDeleteValue
\* called while the engine is not initialised or with a null key, and
\* KVATInit called while it is initialised, return invalidAccess and leave
\* the storage, the page record and didInit as they were.
C16_RefusedCallsChangeNothing == [][C16Step]_vars

\* on a store that holds a value: a null key was refused, then a second
\* KVATInit, then a retrieve with a null key
C16_Witness ==
    /\ Len(hist) = 3
    /\ OkSave(hist[1])
    /\ hist[2].op = "change" /\ hist[2].newKey = NullKey
    /\ hist[2].ret = "invalidAccess"
    /\ hist[3].op = "init" /\ hist[3].ret = "invalidAccess"
    /\ Probed(NullKey) /\ retrieved.ret = "invalidAccess"
    /\ \E n \in 1..(PAGECOUNT - 1) : IsActive(n)

\* ---- a failing entry program ----
\* the call was a save whose final entry program failed
FinalWriteFailed(h) ==
    h.op = "save" /\ "failAt" \in DOMAIN h /\ h.finalEntryWrite

\* no KVATInit has run since the last call of hist
NoInitSince == entryWrites.op # "init"

C17Step ==
    (/\ hist # <<>>
     /\ FinalWriteFailed(Last)
     /\ NoInitSince
     /\ CallStep)
    => hist'[Len(hist')].ret = "invalidAccess"

\* C17: a KVATSaveValue whose final entry program fails returns tableError
\* and leaves the engine uninitialised: until KVATInit runs again every
\* KVATSaveValue, KVATRetrieveValue, KVATChangeKey and KVATDeleteValue
\* returns invalidAccess.
C17_FinalWriteFailureIsFatal ==
    /\ [](hist # <<>> /\ FinalWriteFailed(Last)
            => /\ Last.ret = "tableError"
               /\ NoInitSince
                    => /\ ~didInit
                       /\ retrieved.op = "retrieve" => retrieved.ret = "invalidAccess")
    /\ [][C17Step]_vars

\* the final entry program of an overwrite failed, and the delete of the
\* same key that followed was refused
C17_Witness ==
    /\ Len(hist) = 3
    /\ OkSave(hist[1])
    /\ FinalWriteFailed(hist[2]) /\ hist[2].key = hist[1].key
    /\ hist[2].ret = "tableError"
    /\ hist[3].op = "delete" /\ hist[3].key = hist[1].key
    /\ hist[3].ret = "invalidAccess"
    /\ ~didInit

\* ---- prefix search ----
IsPrefix(p, k) == Len(p) <= Len(k) /\ SubSeq(k, 1, Len(p)) = p

\* the ACTIVE entries from n on whose stored key begins with p, in
\* increasing order
RECURSIVE MatchesFrom(_, _)
MatchesFrom(p, n) ==
    IF n >= PAGECOUNT THEN <<>>
    ELSE (IF IsActive(n) /\ IsPrefix(p, StoredKey(n)) THEN <<n>> ELSE <<>>)
         \o MatchesFrom(p, n + 1)

LookupCallStep ==
    /\ didInit
    /\ Len(hist') = Len(hist) + 1
    /\ hist'[Len(hist')].op \in {"change", "delete"}

C19Step ==
    LookupCallStep
    => (hist'[Len(hist')].ret = "notFound" <=> EntriesOf(hist'[Len(hist')].key) = {})

RebuiltRecord == updatePageRecord(Machine(NoCut)).pageRecord

\* the last call was a KVATChangeKey of a stored key that returned
\* insufficientSpace
FailedRename ==
    /\ hist # <<>>
    /\ Last.op = "change"
    /\ Last.ret = "insufficientSpace"
    /\ ExpectBefore[Last.key] # NoValue

\* a KVATChangeKey that finds the page record equal to a rebuild and returns
\* insufficientSpace leaves it equal to a rebuild
C20Step ==
    (/\ didInit
     /\ pageRecord = RebuiltRecord
     /\ Len(hist') = Len(hist) + 1
     /\ hist'[Len(hist')].op = "change"
     /\ hist'[Len(hist')].ret = "insufficientSpace")
    => pageRecord' = RebuiltRecord'

\* C20: after a KVATChangeKey that returned insufficientSpace the entry is
\* found under the current key with the value it had, the new key (if no
\* value was stored under it) is not found, and the page record equals the
\* one a fresh rebuild computes from storage if it did before the call.
C20_FailedRenameRestores ==
    /\ [](FailedRename
            => /\ EntriesOf(Last.key) # {}
               /\ Probed(Last.key) => Returns(ExpectBefore[Last.key])
               /\ (Probed(Last.newKey) /\ ExpectBefore[Last.newKey] = NoValue)
                     => retrieved.ret = "notFound")
    /\ [][C20Step]_vars

\* ---- the Unknown result ----
\* the environment of the call c
HeapOf(c) == IF "noHeapAt" \in DOMAIN c THEN c.noHeapAt ELSE {}

\* what the two key writes of the KVATChangeKey call c return when the
\* returned first page is the one stored: <<new key, old key>>
KeyWritesOf(c) ==
    Bind([Machine(NoCut) EXCEPT !.noHeapAt = HeapOf(c)], LAMBDA m :
    Bind(readTableEntry(m, lookupByKey(m, c.key, FALSE, 1)), LAMBDA e :
    Bind(writeData(m, CString(c.newKey), Len(c.newKey) + 1, e.keyPage,
                   Truthy(BitAnd(e.metadata, MKC_ISMULTIPLE)),
                   CHOOSE pad \in PadBytes : TRUE, Intact), LAMBDA new :
    <<new.page,
      writeData(new.m, CString(c.key), Len(c.key) + 1, e.keyPage,
                Truthy(BitAnd(e.metadata, MKC_ISMULTIPLE)),
                CHOOSE pad \in PadBytes : TRUE, Intact).page>>)))

C21Step ==
    (/\ Len(hist') = Len(hist) + 1
     /\ "ret" \in DOMAIN hist'[Len(hist')]
     /\ hist'[Len(hist')].ret = "unknown")
    => Bind(hist'[Len(hist')], LAMBDA c :
       /\ c.op = "change"
       /\ KeyWritesOf(c) = <<0, 0>>
       /\ eeTable'[lookupByKey(Machine(NoCut), c.key, FALSE, 1)].metadata = 0
       /\ ~didInit')

\* C21: a call returns unknown only if it is a KVATChangeKey whose write of
\* the new key and whose write-back of the old key both failed, and it then
\* leaves the entry with metadata 0 on storage and the engine uninitialised;
\* KVATRetrieveValue never returns unknown.
C21_UnknownOnlyOnDoubleFailure ==
    /\ [](retrieved.op = "retrieve" => retrieved.ret # "unknown")
    /\ [][C21Step]_vars

\* ---- initialisation that fails ----
\* the step is a KVATInit made while the engine is not initialised
InitCallStep ==
    /\ Len(hist') = Len(hist) + 1
    /\ hist'[Len(hist')].op = "init"
    /\ ~didInit

C22Step ==
    /\ InitCallStep
          => /\ didInit' <=> hist'[Len(hist')].ret = "none"
             /\ hist'[Len(hist')].ret
                   \in {"none", "storageFault", "heapError", "tableError", "recordFault"}
    /\ (CallStep /\ ~didInit) => hist'[Len(hist')].ret = "invalidAccess"

\* C22: a KVATInit made while the engine is not initialised leaves didInit
\* true exactly when it returns none; after storageFault, heapError,
\* tableError or recordFault didInit is false, and while it is false
\* KVATSaveValue, KVATRetrieveValue, KVATChangeKey and KVATDeleteValue return
\* invalidAccess.
C22_InitializedIffOk ==
    /\ []((retrieved.op = "retrieve" /\ ~didInit) => retrieved.ret = "invalidAccess")
    /\ [][C22Step]_vars

\* a value was saved, the device restarted, the KVATInit that followed
\* returned recordFault, and the retrieve of the key was refused
C22_Witness ==
    /\ Len(hist) = 3
    /\ OkSave(hist[1])
    /\ hist[2].op = "reboot"
    /\ hist[3].op = "init" /\ hist[3].ret = "recordFault"
    /\ ~didInit
    /\ Probed(KeyA) /\ retrieved.ret = "invalidAccess"

\* ---- the reserved entry and page ----
\* C23: while the engine is initialised entry 0 has metadata 0;
\* getEmptyTableEntryNumber yields an entry of [1, PAGECOUNT) whenever one
\* is neither ACTIVE nor OPEN, and lookupByKey (started at 0 or at 1) an
\* entry of [1, PAGECOUNT) whenever one holds the key, so that 0 stands for
\* none only; page 0 is not the keyPage or valuePage of an ACTIVE entry nor
\* a page of its chains; and bit 0 of the page record is set.
C23_ZeroIsReserved ==
    didInit =>
        /\ eeTable[0].metadata = 0
        /\ FreeSlots # {} => getEmptyTableEntryNumber(Machine(NoCut)) \in FreeSlots
        /\ \A k \in Keys :
              /\ EntriesOf(k) # {}
                    => lookupByKey(Machine(NoCut), k, FALSE, 1) \in EntriesOf(k)
              /\ lookupByKey(Machine(NoCut), k, FALSE, 0)
                    = lookupByKey(Machine(NoCut), k, FALSE, 1)
        /\ \A n \in 1..(PAGECOUNT - 1) :
              IsActive(n) =>
                 /\ eeTable[n].keyPage # 0 /\ eeTable[n].valuePage # 0
                 /\ \A i \in DOMAIN (KeyChain(n) \o ValueChain(n)) :
                       (KeyChain(n) \o ValueChain(n))[i] # 0
        /\ pageRecord[1] % 2 = 1

\* a key was saved, deleted and another saved in the slot it left, while
\* entry 0 and page 0 stayed out of use
C23_Witness ==
    /\ didInit
    /\ Len(hist) = 3
    /\ OkSave(hist[1]) /\ OkDelete(hist[2]) /\ OkSave(hist[3])
    /\ hist[3].key # hist[1].key
    /\ IsActive(1) /\ FreeSlots = {2, 3}
    /\ eeTable[0].metadata = 0

\* ---- the paging functions ----
\* the pages of [1, PAGECOUNT)
Pages == 1..(PAGECOUNT - 1)

\* C24: getEmptyPageNumber, applied when every page of [1, PAGECOUNT) is
\* marked in the page record, returns 0 and leaves the page record as it was
\* and writes no byte outside it.
C24_FindFreeReturnsNone ==
    (retrieved.op = "findFree" /\ Pages \subseteq MarkedPages(pageRecord))
        => /\ retrieved.page = 0
           /\ retrieved.pageRecord = pageRecord
           /\ retrieved.heapOverrun = heapOverrun

\* C25: while the engine is initialised every page of the chains of the
\* ACTIVE entries (their keyPage, their valuePage and every page a link byte
\* names) and every page marked in the page record beside page 0 lies in
\* [1, PAGECOUNT), no page at or beyond PAGECOUNT has been written, and no
\* byte outside the page record has been written.
C25_PagesInRange ==
    didInit =>
        /\ \A n \in Pages :
              IsActive(n) =>
                 \A i \in DOMAIN (KeyChain(n) \o ValueChain(n)) :
                    (KeyChain(n) \o ValueChain(n))[i] \in Pages
        /\ MarkedPages(pageRecord) \subseteq {0} \cup Pages
        /\ \A p \in PAGECOUNT..MaxByte : eePages[p] = ZeroPage
        /\ ~heapOverrun

\* C26: writeData, given a size whose chain takes more than PAGECOUNT pages,
\* returns 0, leaves the page record as it was and programs no page.
C26_TooBigFailsFast ==
    (retrieved.op = "writeChain" /\ PagesOf(retrieved.size) > PAGECOUNT)
        => /\ retrieved.page = 0
           /\ retrieved.pageRecord = pageRecord
           /\ retrieved.heapOverrun = heapOverrun
           /\ retrieved.nw = 0

\* ---- what a writeData probe found and left ----
\* the pages of a chain in the pages ps
RECURSIVE ChainIn(_, _, _, _)
ChainIn(ps, page, isMultiple, n) ==
    IF page = 0 \/ n = 0 THEN <<>>
    ELSE IF ~isMultiple \/ page \notin DOMAIN ps THEN <<page>>
    ELSE <<page>> \o ChainIn(ps, ps[page][1], TRUE, n - 1)

\* the reuse chain the probe was given, as it was before the call
ReuseChain == ChainOf(retrieved.reuse.start, retrieved.reuse.isMultiple)

\* the chain that starts at the first page of the reuse chain after the call
ChainLeft ==
    ChainIn(retrieved.eePages, retrieved.reuse.start, retrieved.isMultiple,
            MaxByte + 1)

Min(a, b) == IF a < b THEN a ELSE b

SeqRange(q) == {q[i] : i \in DOMAIN q}

\* C27: a writeData that is given the reuse chain r1..rm, needs n pages (at
\* most PAGECOUNT) and does not return 0 leaves the chain r1..r_min(m,n) followed by n - m pages
\* that were unmarked and are now marked; the pages r_(n+1)..rm are unmarked;
\* no other bit of the page record has changed; and it returns r1.
C27_ReuseKeepsOrder ==
    (/\ retrieved.op = "writeChain"
     /\ retrieved.reuse.start # 0
     /\ PagesOf(retrieved.size) <= PAGECOUNT
     /\ retrieved.page # 0)
    => Bind(Min(Len(ReuseChain), PagesOf(retrieved.size)), LAMBDA kept :
       /\ retrieved.page = retrieved.reuse.start
       /\ Len(ChainLeft) = PagesOf(retrieved.size)
       /\ SubSeq(ChainLeft, 1, kept) = SubSeq(ReuseChain, 1, kept)
       /\ MarkedPages(retrieved.pageRecord)
             = (MarkedPages(pageRecord)
                  \ SeqRange(SubSeq(ReuseChain, kept + 1, Len(ReuseChain))))
               \cup SeqRange(SubSeq(ChainLeft, kept + 1, Len(ChainLeft)))
       /\ SeqRange(SubSeq(ChainLeft, kept + 1, Len(ChainLeft)))
             \cap MarkedPages(pageRecord) = {})

\* the pages of [1, PAGECOUNT) the page record does not mark
FreePages == Pages \ MarkedPages(pageRecord)

\* the probe was a writeData of an accepted size that needed more new pages
\* than [1, PAGECOUNT) had free
OutOfPages ==
    /\ retrieved.op = "writeChain"
    /\ PagesOf(retrieved.size) <= PAGECOUNT
    /\ PagesOf(retrieved.size) - Len(ReuseChain) > Cardinality(FreePages)

\* C28: a writeData that needs more new pages than are free returns 0 and
\* leaves the page record as it was (the pages it took are unmarked again,
\* those of the reuse chain still marked), and a multiple reuse chain is
\* still the chain it was, ending with link 0 in its last page.
C28_FailureUnwinds ==
    OutOfPages
    => /\ retrieved.page = 0
       /\ MarkedPages(retrieved.pageRecord) = MarkedPages(pageRecord)
       /\ retrieved.heapOverrun = heapOverrun
       /\ retrieved.reuse.isMultiple
             => ChainIn(retrieved.eePages, retrieved.reuse.start, TRUE, MaxByte + 1)
                  = ReuseChain

\* the page a probed writeData writes first: the start of the reuse chain,
\* or the page getEmptyPageNumber finds
FirstWritten ==
    IF retrieved.reuse.start # 0 THEN retrieved.reuse.start
    ELSE getEmptyPageNumber(Machine(NoCut), FALSE).page

\* the chain the probe left from the page it wrote first
ChainWritten ==
    ChainIn(retrieved.eePages, FirstWritten, retrieved.isMultiple, MaxByte + 1)

\* the probe was a writeData whose chain fits: at most PAGECOUNT pages, and
\* no more new ones than [1, PAGECOUNT) has free
ChainFits ==
    /\ retrieved.op = "writeChain"
    /\ PagesOf(retrieved.size) <= PAGECOUNT
    /\ PagesOf(retrieved.size) - Len(ReuseChain) <= Cardinality(FreePages)

\* the bytes a page holds beside its link
PayloadPerPage(size) == IF size > PAGESIZE THEN PAGESIZE - 1 ELSE PAGESIZE

\* C29: a writeData of size >= 1 whose chain fits and that does not return 0
\* reports isMultiple = (size > PAGESIZE), programs as many pages as the
\* chain has (1 when size <= PAGESIZE, ceil(size / (PAGESIZE - 1)) linked
\* ones otherwise), leaves the last of them with link 0, and reports
\* remains = 0 when size is a multiple of the payload of a page and the
\* payload less (size mod payload) otherwise.
C29_ChainShape ==
    (ChainFits /\ retrieved.page # 0)
    => /\ retrieved.isMultiple = (retrieved.size > PAGESIZE)
       /\ retrieved.nw = PagesOf(retrieved.size)
       /\ Len(ChainWritten) = PagesOf(retrieved.size)
       /\ NoRepeat(ChainWritten)
       /\ retrieved.isMultiple
             => retrieved.eePages[ChainWritten[Len(ChainWritten)]][1] = 0
       /\ retrieved.remains
             = IF retrieved.size % PayloadPerPage(retrieved.size) = 0 THEN 0
               ELSE PayloadPerPage(retrieved.size)
                    - (retrieved.size % PayloadPerPage(retrieved.size))

\* beside a stored key a value of PAGESIZE + 1 bytes was written as a new
\* chain of two pages, two bytes of the second one left over
C29_Witness ==
    /\ ChainFits
    /\ hist # <<>> /\ OkSave(hist[1])
    /\ retrieved.size = PAGESIZE + 1
    /\ retrieved.reuse = NoReuse
    /\ retrieved.page # 0
    /\ retrieved.isMultiple
    /\ Len(ChainWritten) = 2
    /\ retrieved.remains = 1

\* ---- the order of the storage programs of a save ----
\* an entry program that sets OPEN
IsOpenWrite(p) == p.what = "entry" /\ Truthy(BitAnd(p.metadata, MOPEN))

\* an entry program that sets ACTIVE and clears OPEN
IsFinalWrite(p) ==
    /\ p.what = "entry"
    /\ Truthy(BitAnd(p.metadata, MACTIVE))
    /\ ~Truthy(BitAnd(p.metadata, MOPEN))

\* the page programs among the first n programs
RECURSIVE PageProgramsIn(_, _)
PageProgramsIn(programs, n) ==
    IF n = 0 THEN 0
    ELSE PageProgramsIn(programs, n - 1) + (IF programs[n].what = "page" THEN 1 ELSE 0)

\* the pages the chains of the save c take: those of the value, and those
\* of the key unless the entry was ACTIVE already when it was opened
PagesToWrite(c) ==
    PagesOf(Len(c.value))
    + (IF Truthy(BitAnd(c.programs[1].metadata, MACTIVE)) THEN 0
       ELSE PagesOf(Len(c.key) + 1))

\* the last call was a KVATSaveValue whose programs are known
TracedSave == hist # <<>> /\ Last.op = "save" /\ "programs" \in DOMAIN Last

\* C30: among the storage programs of a KVATSaveValue, every page program
\* comes after an entry program that set OPEN and was reported as done; the
\* entry program that sets ACTIVE and clears OPEN comes after all the page
\* programs of the key chain and the value chain; and it is the last
\* program of the call.
C30_SaveOrder ==
    TracedSave
    => \A j \in DOMAIN Last.programs :
          /\ Last.programs[j].what = "page"
                => IsOpenWrite(Last.programs[1]) /\ Last.programs[1].done
          /\ IsFinalWrite(Last.programs[j])
                => /\ j = Len(Last.programs)
                   /\ PageProgramsIn(Last.programs, j - 1) = PagesToWrite(Last)

\* a new key with a value of two pages was saved: the OPEN program, one key
\* page, two value pages, the ACTIVE program
C30_Witness ==
    /\ TracedSave
    /\ Last.ret = "none" /\ Last.failAt = NoCut
    /\ Last.value = ValTwoPages
    /\ Len(Last.programs) = 5
    /\ IsOpenWrite(Last.programs[1]) /\ ~Truthy(BitAnd(Last.programs[1].metadata, MACTIVE))
    /\ \A j \in 2..4 : Last.programs[j].what = "page"
    /\ IsFinalWrite(Last.programs[5])

\* ---- the entry slots a save may take ----
\* the entries of [1, PAGECOUNT) with OPEN set and ACTIVE clear
OpenOnly == {n \in 1..(PAGECOUNT - 1) : IsOpen(n) /\ ~IsActive(n)}

\* the last thing done was a KVATInit that succeeded
JustInitialised == didInit /\ entryWrites.op = "init"

\* C31: after the initialisation that follows an interrupted or failed save,
\* an entry with OPEN set and ACTIVE clear is taken for empty by
\* getEmptyTableEntryNumber: the scan that reaches it returns it, and the
\* scan from entry 1 returns an entry that is not ACTIVE.
C31_OpenOnlyIsEmpty ==
    (JustInitialised /\ OpenOnly # {})
        => /\ \A n \in OpenOnly : EmptyEntryScan(Machine(NoCut), n) = n
           /\ getEmptyTableEntryNumber(Machine(NoCut)) # 0
           /\ ~IsActive(getEmptyTableEntryNumber(Machine(NoCut)))
           /\ \A n \in OpenOnly : getEmptyTableEntryNumber(Machine(NoCut)) <= n

\* the lowest entry of [1, PAGECOUNT) with neither ACTIVE nor OPEN, 0 when
\* there is none
LowestFree ==
    IF FreeSlots = {} THEN 0
    ELSE CHOOSE n \in FreeSlots : \A k \in FreeSlots : n <= k

\* the step is a KVATSaveValue of a key no ACTIVE entry holds
NewKeySaveStep ==
    /\ didInit
    /\ Len(hist') = Len(hist) + 1
    /\ hist'[Len(hist')].op = "save"
    /\ EntriesOf(hist'[Len(hist')].key) = {}

C32Step ==
    NewKeySaveStep
    => IF LowestFree = 0
       THEN /\ hist'[Len(hist')].ret = "insufficientSpace"
            /\ entryWrites'.steps = <<>>
            /\ eeTable' = eeTable
       ELSE /\ entryWrites'.steps # <<>>
            /\ \A i \in DOMAIN entryWrites'.steps :
                  entryWrites'.steps[i].entry = LowestFree
            /\ \A n \in 1..(PAGECOUNT - 1) :
                  n # LowestFree => eeTable'[n] = eeTable[n]
            /\ hist'[Len(hist')].ret = "none"
                  => Truthy(BitAnd(eeTable'[LowestFree].metadata, MACTIVE))

SoundChain(chain) == WellFormed(chain) /\ SeqRange(chain) \subseteq Pages

\* every ACTIVE entry points to well-formed chains
SoundStorage ==
    \A n \in Pages : IsActive(n) => SoundChain(KeyChain(n)) /\ SoundChain(ValueChain(n))

\* the pages that the chains of entry n name, whatever its metadata
NamedBy(n) == SeqRange(KeyChain(n)) \cup SeqRange(ValueChain(n))

\* C33: right after a KVATInit that succeeded on storage whose ACTIVE
\* entries point to well-formed chains, the page record marks page 0 and the
\* pages of the key chains and value chains of the ACTIVE entries of
\* [1, PAGECOUNT), and no other page: a page named only by entries without
\* ACTIVE (empty, or OPEN alone) is not marked.
C33_RecordAfterInit ==
    (JustInitialised /\ SoundStorage)
        => /\ MarkedPages(pageRecord) = {0} \cup SeqRange(ReachablePages)
           /\ ~heapOverrun
           /\ \A n \in Pages :
                 ~IsActive(n)
                    => (NamedBy(n) \ SeqRange(ReachablePages))
                          \cap MarkedPages(pageRecord) = {}

\* a key was saved with a value of two pages, a save of a second key failed
\* and left its entry OPEN and its key page marked; after a restart the
\* record marks page 0 and the three pages of the first key, and the page
\* the failed save had taken is free again
C33_Witness ==
    /\ JustInitialised /\ SoundStorage
    /\ Len(hist) = 3
    /\ OkSave(hist[1]) /\ hist[1].value = ValTwoPages
    /\ hist[2].op = "save" /\ hist[2].ret = "insufficientSpace"
    /\ hist[3].op = "reboot"
    /\ IsActive(1) /\ OpenOnly = {2}
    /\ MarkedPages(pageRecord) = {0, 1, 2, 3}
    /\ eePages[4] # ZeroPage

\* ---- the entry a rename leaves ----
\* the step is a KVATChangeKey that returned ok
OkChangeStep ==
    /\ Len(hist') = Len(hist) + 1
    /\ OkChange(hist'[Len(hist')])

\* the entry that held the current key when the call was made
RenamedEntry == lookupByKey(Machine(NoCut), hist'[Len(hist')].key, FALSE, 1)

C34Step ==
    OkChangeStep
    => /\ RenamedEntry # 0
       /\ Truthy(BitAnd(eeTable'[RenamedEntry].metadata, MKC_ISMULTIPLE))
             = (Len(hist'[Len(hist')].newKey) + 1 > PAGESIZE)
       /\ eeTable'[RenamedEntry].keyPage = eeTable[RenamedEntry].keyPage
       /\ eeTable'[RenamedEntry].valuePage = eeTable[RenamedEntry].valuePage
       /\ eeTable'[RenamedEntry].remains = eeTable[RenamedEntry].remains
       /\ BitAnd(eeTable'[RenamedEntry].metadata, MVC_ISMULTIPLE)
             = BitAnd(eeTable[RenamedEntry].metadata, MVC_ISMULTIPLE)

\* C34: after a KVATChangeKey that returned ok, the stored KEY_MULTIPLE bit
\* of the entry is set exactly when strlen(newKey) + 1 > PAGESIZE, and the
\* entry's keyPage, valuePage, VALUE_MULTIPLE bit and remains are what they
\* were before the call.
C34_RenameKeepsEntry == [][C34Step]_vars

\* ---- what a delete touches ----
\* the step is a KVATDeleteValue that returned ok
OkDeleteStep ==
    /\ Len(hist') = Len(hist) + 1
    /\ OkDelete(hist'[Len(hist')])

\* the entry that held the key when the call was made
DeletedEntry == lookupByKey(Machine(NoCut), hist'[Len(hist')].key, FALSE, 1)

\* the storage programs the call makes from the state it is made in
DeletePrograms == KVATDeleteValue(Machine(NoCut), hist'[Len(hist')].key).m.programs

\* the pages of the key chain and the value chain of entry n, each followed
\* for PAGECOUNT pages at most
WalkedFrom(n) ==
    SeqRange(ChainFrom(eeTable[n].keyPage,
                       Truthy(BitAnd(eeTable[n].metadata, MKC_ISMULTIPLE)), PAGECOUNT))
    \cup SeqRange(ChainFrom(eeTable[n].valuePage,
                            Truthy(BitAnd(eeTable[n].metadata, MVC_ISMULTIPLE)),
                            PAGECOUNT))

C35Step ==
    OkDeleteStep
    => /\ DeletedEntry # 0
       /\ eePages' = eePages
       /\ eeIndex' = eeIndex
       /\ Len(DeletePrograms) = 1 /\ DeletePrograms[1].what = "entry"
       /\ eeTable' = [eeTable EXCEPT ![DeletedEntry].metadata = MDEFAULT]
       /\ MarkedPages(pageRecord')
             = MarkedPages(pageRecord) \ WalkedFrom(DeletedEntry)

\* C35: a KVATDeleteValue that returns ok programs no page and not the
\* index: its one storage program is the record of the deleted entry, whose
\* metadata becomes 0 while its other fields stay; every other entry is
\* unchanged; and the page record loses the marks of the pages of the key
\* chain and the value chain of the deleted entry (each chain as far as
\* PAGECOUNT pages) and changes in no other bit.
C35_DeleteFrame == [][C35Step]_vars

\* beside a stored key a second key with a value of two pages was saved and
\* deleted: its entry has metadata 0 and still names its pages, which hold
\* what they held and are free again
C35_Witness ==
    /\ didInit
    /\ Len(hist) = 3
    /\ OkSave(hist[1]) /\ OkSave(hist[2]) /\ OkDelete(hist[3])
    /\ hist[2].key = hist[3].key /\ hist[1].key # hist[2].key
    /\ hist[2].value = ValTwoPages
    /\ IsActive(1)
    /\ eeTable[2].metadata = MDEFAULT /\ eeTable[2].keyPage # 0
    /\ Len(ValueChain(2)) >= 1
    /\ NamedBy(2) \cap MarkedPages(pageRecord) = {}
    /\ eePages[eeTable[2].valuePage] # ZeroPage

\* ---- a delete whose entry program fails ----
\* the step is a KVATDeleteValue that returned tableError, its entry program
\* not having reached the medium
FailedDeleteStep ==
    /\ Len(hist') = Len(hist) + 1
    /\ hist'[Len(hist')].op = "delete"
    /\ hist'[Len(hist')].ret = "tableError"
    /\ "failLands" \in DOMAIN hist'[Len(hist')]
    /\ ~hist'[Len(hist')].failLands

C36Step ==
    FailedDeleteStep
    => /\ DeletedEntry # 0
       /\ didInit'
       /\ eeTable'[DeletedEntry] = eeTable[DeletedEntry]
       /\ Truthy(BitAnd(eeTable'[DeletedEntry].metadata, MACTIVE))
       /\ WalkedFrom(DeletedEntry) \subseteq MarkedPages(pageRecord')

\* the last call but one was a KVATDeleteValue that returned tableError and
\* left its entry ACTIVE, the last one a KVATSaveValue that returned ok
SaveAfterFailedDelete ==
    /\ Len(hist) >= 2
    /\ Prev.op = "delete" /\ Prev.ret = "tableError"
    /\ "failLands" \in DOMAIN Prev /\ ~Prev.failLands
    /\ OkSave(Last) /\ Last.key # Prev.key

\* C36: a KVATDeleteValue that returns tableError because its entry program
\* failed leaves the entry ACTIVE on storage and every page of its key chain
\* and value chain marked in the page record; after a KVATSaveValue of
\* another key that follows it, no page belongs to the chains of two ACTIVE
\* entries.
C36_FailedDeleteKeepsPages ==
    /\ [][C36Step]_vars
    /\ [](SaveAfterFailedDelete => NoRepeat(ReachablePages))

\* ---- retrieval into the caller's buffer ----
\* the value the calls made so far stored under the key retrieved
ValueAsked == Expect(hist)[retrieved.key]

\* a retrieval by allocation, made in the same state, yields that value
\* whole and with its size
StoredWhole ==
    Bind(KVATRetrieveValue(Machine(NoCut), retrieved.key, FALSE, 0), LAMBDA whole :
         /\ whole.ret = "none"
         /\ whole.size = Len(ValueAsked)
         /\ Len(whole.value) >= Len(ValueAsked)
         /\ SubSeq(whole.value, 1, Len(ValueAsked)) = ValueAsked)

\* C37: a KVATRetrieveValue into a buffer of retrieveBufferSize >= 1 bytes,
\* for a key whose value v the store holds, returns ok, reports size |v|,
\* writes no more than retrieveBufferSize bytes, and the first
\* min(|v|, retrieveBufferSize) bytes it writes are those of v.
C37_BufferRetrieval ==
    (/\ retrieved.op = "retrieveByBuffer"
     /\ ValueAsked # NoValue
     /\ StoredWhole)
    => /\ retrieved.ret = "none"
       /\ retrieved.size = Len(ValueAsked)
       /\ Len(retrieved.value) <= retrieved.retrieveBufferSize
       /\ Len(retrieved.value) >= Min(Len(ValueAsked), retrieved.retrieveBufferSize)
       /\ \A j \in 1..Min(Len(ValueAsked), retrieved.retrieveBufferSize) :
             retrieved.value[j] = ValueAsked[j]

\* ---- one entry per key ----
\* the ACTIVE entries of [1, PAGECOUNT)
ActiveEntries == {n \in Pages : IsActive(n)}

\* C38: in every state the calls reach while every read of freed memory
\* yields the stored value, no two ACTIVE entries hold the same key, and a
\* KVATRetrieveValue of a key returns the value the calls made so far last
\* stored under it.
C38_OneEntryPerKey ==
    (didInit /\ staleReads = 0)
    => /\ \A a, b \in ActiveEntries : a # b => StoredKey(a) # StoredKey(b)
       /\ \A k \in Keys :
             (Probed(k) /\ Expect(hist)[k] # NoValue) => Returns(Expect(hist)[k])

\* ---- chain walks on storage with any links ----
\* C39: whatever the link bytes on storage hold, a walk of
\* followPageChainAndSetPageRecord reads at most PAGECOUNT links, the chain
\* size calculation of fetchData reads at most PAGECOUNT links, and the
\* walks of one updatePageRecord (two chains for each entry of
\* [1, PAGECOUNT)) read at most 2 * (PAGECOUNT - 1) * PAGECOUNT links.
C39_WalksAreBounded ==
    retrieved.op = "walk"
    => /\ retrieved.followReads <= PAGECOUNT
       /\ retrieved.fetchReads <= PAGECOUNT
       /\ retrieved.rebuildReads <= 2 * (PAGECOUNT - 1) * PAGECOUNT

\* after a value of two pages was stored, the link of its first page came
\* to name the page itself; a walk that ran into the cycle stopped after
\* PAGECOUNT links, the chain size calculation after PAGECOUNT - 1, and the
\* walks of updatePageRecord after PAGECOUNT links in all
C39_Witness ==
    /\ retrieved.op = "walk" /\ retrieved.isChainMultiple
    /\ Len(hist) >= 2
    /\ OkSave(hist[1])
    /\ Last.op = "corruptLink" /\ Last.link = Last.page
    /\ retrieved.followReads = PAGECOUNT
    /\ retrieved.fetchReads = PAGECOUNT - 1
    /\ retrieved.rebuildReads = PAGECOUNT

\* ---- the order of the storage programs of a format ----
\* among the programs, one of the index comes after PAGECOUNT programs of
\* entries with metadata 0, all reported as done, and is the last
HeaderLast(programs) ==
    \A j \in DOMAIN programs :
        programs[j].what = "index"
        => /\ j = PAGECOUNT + 1 /\ j = Len(programs)
           /\ \A i \in 1..PAGECOUNT :
                 /\ programs[i].what = "entry"
                 /\ programs[i].metadata = MDEFAULT
                 /\ programs[i].done

\* the last thing recorded is a KVATInit whose format stopped among its
\* entry programs: power was lost, or one of them was reported as failed
FormatStopped ==
    /\ hist # <<>>
    /\ "programs" \in DOMAIN Last
    /\ Last.programs # <<>>
    /\ \A j \in DOMAIN Last.programs : Last.programs[j].what = "entry"
    /\ Last.op = "init" => Last.ret = "tableError"

\* the call that stopped so leaves the engine not initialised
C40Step == (hist' # hist /\ FormatStopped') => ~didInit'

\* the store holds nothing
EmptyStore ==
    /\ eeIndex = FormattedIndex
    /\ \A n \in 0..(PAGECOUNT - 1) : eeTable[n] = EmptyEntry
    /\ MarkedPages(pageRecord) = {0}

=============================================================================
